---- MODULE Spec2Model ----
(***************************************************************************)
(* Model of the calculation layer of InvestMate (src/main.go): the risk    *)
(* questionnaire scorer, the behavioral scorer, the allocation selector    *)
(* and the compound-growth projector, and the tool handlers that parse     *)
(* their text arguments, each applied to inputs drawn from bounded sets.   *)
(*                                                                         *)
(* Spec is main from its start: the environment check, the registration of *)
(* the tools, the running server and one tool call at a time.  SharedSpec  *)
(* is the running server with concurrent callers of the functions that     *)
(* touch package-level state: the parse cache and the lookup tables.       *)
(*                                                                         *)
(* The float64 arithmetic of calculateCompoundGrowth is modelled bit for   *)
(* bit: a float is (-1)^neg * m * 2^e with m an odd natural below 2^53     *)
(* held in arbitrary precision, and every operation rounds its exact       *)
(* result to the nearest such value, ties to even.  Overflow, subnormals   *)
(* and NaN lie outside the input domains and are not modelled.             *)
(***************************************************************************)
EXTENDS Integers, Sequences, FiniteSets, TLC

\* call:  the function applied last and its arguments
\* frame: the local variables of that call when it returns
\* ret:   the value it returns
VARIABLES call, frame, ret

\* pc:           the position of main
\* anthropicKey: the value of ANTHROPIC_API_KEY in the environment
\* pid:          the id of the process
\* srv:          the server: none, created, running
\* registered:   the names of the tools added to the server, in order
VARIABLES pc, anthropicKey, pid, srv, registered

\* what a tool call leaves alone
serverVars == <<pc, anthropicKey, pid, srv, registered>>

\* parseCache: the entries of the sync.Map of parseCachedFloat, Nil where
\*             a string has no entry
\* tables:     the contents of the package-level lookup tables
\* caller:     for each concurrent caller, the call it is in and what the
\*             call returned to it
VARIABLES parseCache, tables, caller

\* the state that concurrent calls share, and the callers
sharedVars == <<parseCache, tables, caller>>

vars == <<call, frame, ret, serverVars, sharedVars>>

----------------------------------------------------------------------------
(* Bounds of the input domains *)

MaxAge == 123

MaxYearsToRetirement == 1

MaxBandYears == 200

MaxYears == 2

MaxScore == 165

\* the concurrent callers
MaxCallers == 2

----------------------------------------------------------------------------
(* Package-level lookup tables, src/main.go:45-174 *)

riskAllocationCache ==
    ("Conservative" :> [stocks |-> "30-40%", bonds |-> "50-60%", cash |-> "10-20%"])
 @@ ("Moderate" :> [stocks |-> "50-60%", bonds |-> "30-40%", cash |-> "5-10%"])
 @@ ("Moderate-to-Aggressive" :> [stocks |-> "70-80%", bonds |-> "15-25%", cash |-> "5%"])

\* the table without the row of the highest level
strategiesCache_Mut ==
    ("Conservative" :> <<"Focus on bonds and dividend-paying stocks",
                         "Monthly automated investing",
                         "Rebalance annually">>)
 @@ ("Moderate" :> <<"Mix of growth stocks and stable bonds",
                     "Dollar-cost averaging",
                     "Review quarterly">>)

strategiesCache ==
    ("Conservative" :> <<"Focus on bonds and dividend-paying stocks",
                         "Monthly automated investing",
                         "Rebalance annually">>)
 @@ ("Moderate" :> <<"Mix of growth stocks and stable bonds",
                     "Dollar-cost averaging",
                     "Review quarterly">>)
 @@ ("Moderate-to-Aggressive" :> <<"Growth-focused with some international exposure",
                                   "Automatic reinvestment of dividends",
                                   "Stay the course during market dips">>)

timeHorizonTable_Mut ==
    ("1" :> 2) @@ ("1-3" :> 2) @@ ("5" :> 5) @@ ("3-5" :> 5)
 @@ ("10" :> 10) @@ ("20" :> 20) @@ ("20+" :> 20) @@ ("15" :> 15)

timeHorizonTable ==
    ("1" :> 2) @@ ("1-3" :> 2) @@ ("5" :> 5) @@ ("3-5" :> 5)
 @@ ("10" :> 10) @@ ("20" :> 20) @@ ("20+" :> 20)

\* [120]int whose literal lists 80 values: 35 of 70, 15 of 50 and 30 of 30;
\* the remaining 40 elements keep the zero value.  Index i of the model is
\* index i-1 of the array.
ageRiskScore ==
    [i \in 1..120 |-> IF i <= 35 THEN 70
                      ELSE IF i <= 50 THEN 50
                      ELSE IF i <= 80 THEN 30
                      ELSE 0]

comfortRiskScore_Mut ==
    ("very_uncomfortable" :> 10) @@ ("somewhat_uncomfortable" :> 25)
 @@ ("neutral" :> 40) @@ ("comfortable" :> 65) @@ ("very_comfortable" :> 75)

comfortRiskScore ==
    ("very_uncomfortable" :> 10) @@ ("somewhat_uncomfortable" :> 25)
 @@ ("neutral" :> 40) @@ ("comfortable" :> 60) @@ ("very_comfortable" :> 75)

experienceRiskScore_Mut ==
    ("none" :> -35) @@ ("minimal" :> -10) @@ ("moderate" :> 0) @@ ("extensive" :> 15)

experienceRiskScore ==
    ("none" :> -20) @@ ("minimal" :> -10) @@ ("moderate" :> 0) @@ ("extensive" :> 15)

----------------------------------------------------------------------------
(* Values a Go call can end with besides a result *)

\* index out of range: the runtime panics, the call returns nothing
Panic == [panic |-> TRUE]

\* lines 82-129; every entry has the same three key points
conceptCache ==
    LET entry(name, text) ==
            [concept     |-> name,
             explanation |-> text,
             key_points  |->
                <<"Understanding this concept helps you make better investment decisions",
                  "Don't feel rushed - investing is a marathon, not a sprint",
                  "Ask questions anytime - financial literacy is your superpower">>]
    IN   ("etf" :> entry("etf", "An ETF (Exchange-Traded Fund) is like a basket of stocks bundled together. Instead of buying individual companies, you buy a tiny piece of many companies at once. It's like ordering a sampler platter instead of one dish!"))
      @@ ("dividend" :> entry("dividend", "A dividend is a small payment companies give to shareholders (owners). Think of it as the company saying 'thank you' for investing in us. You get paid just for holding the stock!"))
      @@ ("diversification" :> entry("diversification", "Diversification means not putting all your eggs in one basket. Instead of investing only in tech stocks, you spread money across different types of investments, industries, and risk levels."))
      @@ ("compound_interest" :> entry("compound_interest", "Compound interest is when your earnings make their own earnings. Your money grows faster because you're earning 'interest on interest.' Albert Einstein called it the 8th wonder of the world!"))
      @@ ("dollar_cost_averaging" :> entry("dollar_cost_averaging", "Instead of trying to time the market perfectly, you invest a fixed amount regularly (monthly). By averaging out the price over time, you reduce the risk of buying at the peak."))

\* nil: the map or slice a lookup of a missing key yields, the error of a
\* call that succeeded
Nil == [nil |-> TRUE]

MapGet(m, k) == IF k \in DOMAIN m THEN m[k] ELSE Nil

\* src/main.go:836-839
getRiskAllocation(risk) == MapGet(riskAllocationCache, risk)

----------------------------------------------------------------------------
(* explainConcept, src/main.go:825-834, and the handler of
   explain_investment_concept, src/main.go:360-369 *)

explainConcept(concept) ==
    IF concept \in DOMAIN conceptCache THEN conceptCache[concept]
    ELSE [concept     |-> concept,
          explanation |-> "I don't have that concept in my database, but I'd be happy to explain it! Try asking about: ETF, dividend, diversification, compound_interest, or dollar_cost_averaging."]

----------------------------------------------------------------------------
(* parseTimeHorizonFast, src/main.go:779-784 *)

parseTimeHorizonFast(horizon) ==
    IF horizon \in DOMAIN timeHorizonTable THEN timeHorizonTable[horizon] ELSE 10

----------------------------------------------------------------------------
(* assessRiskProfile, src/main.go:787-822 *)

\* the tiers of the behavioral scorer in the place of those of lines 806-812
RiskLevel_Conflated(riskScore) ==
    IF riskScore >= 70 THEN "Aggressive"
    ELSE IF riskScore >= 50 THEN "Moderate-to-Aggressive"
    ELSE IF riskScore >= 35 THEN "Moderate"
    ELSE "Conservative"

RiskLevel_Mut(riskScore) ==
    IF riskScore >= 60 THEN "Moderate-to-Aggressive"
    ELSE IF riskScore > 40 THEN "Moderate"
    ELSE "Conservative"

\* lines 806-812
RiskLevel(riskScore) ==
    IF riskScore > 60 THEN "Moderate-to-Aggressive"
    ELSE IF riskScore > 40 THEN "Moderate"
    ELSE "Conservative"

\* lines 791-795, for an age that indexes inside the array
AgeScore(age) == IF age < 120 THEN ageRiskScore[age + 1] ELSE 30

\* lines 788-804
RiskScore(age, downturnComfort, experience) ==
      AgeScore(age)
    + (IF downturnComfort \in DOMAIN comfortRiskScore
         THEN comfortRiskScore[downturnComfort] ELSE 0)
    + (IF experience \in DOMAIN experienceRiskScore
         THEN experienceRiskScore[experience] ELSE 0)

assessRiskProfile(age, yearsToRetirement, downturnComfort, experience) ==
    IF age < 0
    THEN Panic   \* ageRiskScore[age] with a negative index
    ELSE LET riskScore == RiskScore(age, downturnComfort, experience)
             riskLevel == RiskLevel(riskScore)
         IN [ age                    |-> age,
              years_to_retirement    |-> yearsToRetirement,
              risk_score             |-> riskScore,
              recommended_risk_level |-> riskLevel,
              allocation_suggestion  |-> MapGet(riskAllocationCache, riskLevel),
              best_fit_strategies    |-> MapGet(strategiesCache, riskLevel) ]

----------------------------------------------------------------------------
(* Arbitrary-precision naturals: little-endian sequences of digits in base
   Base without leading zero digits; <<>> is zero.  They carry the exact
   value of the float64 expressions of calculateCompoundGrowth. *)

Base == 100 * 100

RECURSIVE BigOf(_)
BigOf(k) == IF k = 0 THEN <<>> ELSE <<k % Base>> \o BigOf(k \div Base)

RECURSIVE Norm(_)
Norm(x) ==
    IF x = <<>> THEN <<>>
    ELSE IF x[Len(x)] = 0 THEN Norm(SubSeq(x, 1, Len(x) - 1))
    ELSE x

RECURSIVE MulCarry(_, _, _)
MulCarry(x, k, c) ==
    IF x = <<>> THEN BigOf(c)
    ELSE LET t == Head(x) * k + c
         IN <<t % Base>> \o MulCarry(Tail(x), k, t \div Base)

\* x * k for a natural k < 200000
MulSmall(x, k) == Norm(MulCarry(x, k, 0))

RECURSIVE AddCarry(_, _, _)
AddCarry(x, y, c) ==
    IF x = <<>> /\ y = <<>> THEN BigOf(c)
    ELSE LET a == IF x = <<>> THEN 0 ELSE Head(x)
             b == IF y = <<>> THEN 0 ELSE Head(y)
             t == a + b + c
         IN <<t % Base>>
            \o AddCarry(IF x = <<>> THEN x ELSE Tail(x),
                        IF y = <<>> THEN y ELSE Tail(y), t \div Base)

BigAdd(x, y) == AddCarry(x, y, 0)

RECURSIVE SubBorrow(_, _, _)
SubBorrow(x, y, b) ==
    IF x = <<>> THEN <<>>
    ELSE LET d == Head(x) - (IF y = <<>> THEN 0 ELSE Head(y)) - b
         IN <<IF d < 0 THEN d + Base ELSE d>>
            \o SubBorrow(Tail(x), IF y = <<>> THEN y ELSE Tail(y),
                         IF d < 0 THEN 1 ELSE 0)

RECURSIVE CmpFrom(_, _, _)
CmpFrom(x, y, i) ==
    IF i = 0 THEN 0
    ELSE IF x[i] < y[i] THEN -1
    ELSE IF x[i] > y[i] THEN 1
    ELSE CmpFrom(x, y, i - 1)

\* -1, 0 or 1 as x < y, x = y or x > y
BigCmp(x, y) ==
    IF Len(x) < Len(y) THEN -1
    ELSE IF Len(x) > Len(y) THEN 1
    ELSE CmpFrom(x, y, Len(x))

BigLeq(x, y) == BigCmp(x, y) <= 0

\* x - y for x >= y
BigSub(x, y) == Norm(SubBorrow(x, y, 0))

RECURSIVE DivFrom(_, _, _, _)
DivFrom(x, k, i, r) ==
    IF i = 0 THEN <<>>
    ELSE LET t == r * Base + x[i]
         IN DivFrom(x, k, i - 1, t % k) \o <<t \div k>>

\* floor(x / k) for a natural 0 < k < 200000
DivSmall(x, k) == Norm(DivFrom(x, k, Len(x), 0))

RECURSIVE BigPow(_, _)
BigPow(a, n) == IF n = 0 THEN BigOf(1) ELSE MulSmall(BigPow(a, n - 1), a)

RECURSIVE BigMul(_, _)
BigMul(x, y) ==
    IF y = <<>> \/ x = <<>> THEN <<>>
    ELSE LET rest == BigMul(x, Tail(y))
         IN BigAdd(MulSmall(x, Head(y)),
                   IF rest = <<>> THEN <<>> ELSE <<0>> \o rest)

Odd(x) == x # <<>> /\ x[1] % 2 = 1

RECURSIVE SmallBits(_)
SmallBits(k) == IF k = 0 THEN 0 ELSE 1 + SmallBits(k \div 2)

\* number of binary digits of x
RECURSIVE BitLen(_)
BitLen(x) ==
    IF x = <<>> THEN 0
    ELSE IF Len(x) = 1 THEN SmallBits(x[1])
    ELSE 13 + BitLen(DivSmall(x, 8192))

\* x * 2^k
RECURSIVE ShiftLeft(_, _)
ShiftLeft(x, k) ==
    IF k >= 13 THEN ShiftLeft(MulSmall(x, 8192), k - 13) ELSE MulSmall(x, 2^k)

\* floor(x / 2^k)
RECURSIVE ShiftRight(_, _)
ShiftRight(x, k) ==
    IF k >= 13 THEN ShiftRight(DivSmall(x, 8192), k - 13) ELSE DivSmall(x, 2^k)

\* x mod k for a natural 0 < k < 200000
RECURSIVE ModFrom(_, _, _, _)
ModFrom(x, k, i, r) ==
    IF i = 0 THEN r ELSE ModFrom(x, k, i - 1, (r * Base + x[i]) % k)

ModSmall(x, k) == ModFrom(x, k, Len(x), 0)

\* the largest d in lo .. hi-1 with d * y <= t, given lo * y <= t < hi * y
RECURSIVE Digit(_, _, _, _)
Digit(t, y, lo, hi) ==
    IF hi - lo = 1 THEN lo
    ELSE LET mid == (lo + hi) \div 2
         IN IF BigLeq(MulSmall(y, mid), t)
            THEN Digit(t, y, mid, hi) ELSE Digit(t, y, lo, mid)

(* long division in base 8192: j more digits of the quotient of r / y for
   r < y, appended to the digits q, and the remainder *)
RECURSIVE LongDiv(_, _, _, _)

\* the next digit, of t = r * 8192
LongDivDigit(q, t, y, j) ==
    LET d == Digit(t, y, 0, 8192)
    IN LongDiv(BigAdd(MulSmall(q, 8192), BigOf(d)),
               BigSub(t, MulSmall(y, d)), y, j - 1)

LongDiv(q, r, y, j) ==
    IF j = 0 THEN [q |-> q, r |-> r]
    ELSE LongDivDigit(q, MulSmall(r, 8192), y, j)

(* (x + a little) / 2^k rounded to the nearest integer, ties to even;
   sticky says that "a little" is more than nothing *)
RoundShift(x, k, sticky) ==
    IF k <= 0 THEN x
    ELSE LET q   == ShiftRight(x, k)
             rem == BigSub(x, ShiftLeft(q, k))
             c   == BigCmp(rem, ShiftLeft(BigOf(1), k - 1))
         IN IF c > 0 \/ (c = 0 /\ (sticky \/ Odd(q)))
            THEN BigAdd(q, BigOf(1)) ELSE q

----------------------------------------------------------------------------
(* float64: a finite value is (-1)^neg * m * 2^e with m odd and below 2^53,
   zero is m = <<>>.  Every operation is the exact result rounded to the
   nearest value with a 53-bit significand, ties to even (IEEE 754, the
   arithmetic Go specifies for float64).  The values of the model stay far
   from the overflow and subnormal ranges, which are not modelled. *)

FZero == [neg |-> FALSE, m |-> <<>>, e |-> 0]

RECURSIVE Fl(_, _, _)
Fl(neg, m, e) ==
    IF m = <<>> THEN FZero
    ELSE IF Odd(m) THEN [neg |-> neg, m |-> m, e |-> e]
    ELSE IF ModSmall(m, 8192) = 0 THEN Fl(neg, DivSmall(m, 8192), e + 13)
    ELSE Fl(neg, DivSmall(m, 2), e + 1)

Round53(neg, m, e, sticky) ==
    LET L == BitLen(m)
    IN IF L <= 53 THEN Fl(neg, m, e)
       ELSE Fl(neg, RoundShift(m, L - 53, sticky), e + (L - 53))

\* float64(k) for an int k of at most 31 bits
FInt(k) == IF k < 0 THEN Fl(TRUE, BigOf(-k), 0) ELSE Fl(FALSE, BigOf(k), 0)

FNeg(a) == IF a.m = <<>> THEN a ELSE [a EXCEPT !.neg = ~a.neg]

FMul(a, b) ==
    IF a.m = <<>> \/ b.m = <<>> THEN FZero
    ELSE Round53(a.neg # b.neg, BigMul(a.m, b.m), a.e + b.e, FALSE)

\* the exact sum of two floats, as sign, magnitude and exponent
ExactSum(a, b) ==
    LET e0 == IF a.e < b.e THEN a.e ELSE b.e
        x  == ShiftLeft(a.m, a.e - e0)
        y  == ShiftLeft(b.m, b.e - e0)
    IN IF a.neg = b.neg THEN [neg |-> a.neg, m |-> BigAdd(x, y), e |-> e0]
       ELSE IF BigLeq(y, x) THEN [neg |-> a.neg, m |-> BigSub(x, y), e |-> e0]
       ELSE [neg |-> b.neg, m |-> BigSub(y, x), e |-> e0]

\* an exact value rounded to float64
Rounded(s) == Round53(s.neg, s.m, s.e, FALSE)

FAdd(a, b) ==
    IF a.m = <<>> THEN b
    ELSE IF b.m = <<>> THEN a
    ELSE Rounded(ExactSum(a, b))

FSub(a, b) == FAdd(a, FNeg(b))

\* a < b
Negative(s) == s.m # <<>> /\ s.neg

FLess(a, b) == Negative(ExactSum(a, FNeg(b)))

(* num / den * 2^e for naturals num and den > 0, rounded: the operands are
   aligned so that 1/4 <= n/d < 1, and 65 quotient bits are produced *)
RoundedQuotient(neg, qr, e) == Round53(neg, qr.q, e, qr.r # <<>>)

DivRound(neg, num, den, e) ==
    IF num = <<>> THEN FZero
    ELSE LET la == BitLen(num)
             lb == BitLen(den)
             sn == IF la >= lb THEN 0 ELSE lb - 1 - la
             sd == IF la >= lb THEN la - lb + 1 ELSE 0
         IN RoundedQuotient(neg,
                            LongDiv(<<>>, ShiftLeft(num, sn), ShiftLeft(den, sd), 5),
                            e + sd - sn - 65)

\* a / b for b # 0
FDiv(a, b) ==
    IF a.m = <<>> THEN FZero
    ELSE DivRound(a.neg # b.neg, a.m, b.m, a.e - b.e)

(* strconv.ParseFloat of the decimal literal [-]m e-d, that is m / 10^d:
   the nearest float64 *)
FDec(neg, m, d) == DivRound(neg, BigOf(m), BigPow(10, d), 0)

(* "%.<d>f": |a| * 10^d rounded to the nearest integer (the digits that are
   printed), with the sign *)
Format(a, d) ==
    LET x == BigMul(a.m, BigPow(10, d))
    IN [neg   |-> a.neg,
        units |-> IF a.e >= 0 THEN ShiftLeft(x, a.e) ELSE RoundShift(x, -a.e, FALSE)]

----------------------------------------------------------------------------
(* strconv.ParseInt(s, 10, 64) and strconv.ParseFloat(s, 64) on decimal
   text, and parseCachedFloat, src/main.go:693-700.  A call returns the
   value and the error; on a syntax error the value is 0.  Hexadecimal
   text, "inf", "nan" and numbers beyond the range of the type lie outside
   the input sets and are not modelled. *)

\* the i-th character of s, "" beyond its end
Char(s, i) == IF i <= Len(s) THEN SubSeq(s, i, i) ELSE ""

DigitChars == {"0", "1", "2", "3", "4", "5", "6", "7", "8", "9"}

DigitValue(c) ==
    CASE c = "0" -> 0 [] c = "1" -> 1 [] c = "2" -> 2 [] c = "3" -> 3
      [] c = "4" -> 4 [] c = "5" -> 5 [] c = "6" -> 6 [] c = "7" -> 7
      [] c = "8" -> 8 [] c = "9" -> 9

\* the position after the digits that start at position i
RECURSIVE DigitsEnd(_, _)
DigitsEnd(s, i) ==
    IF Char(s, i) \in DigitChars THEN DigitsEnd(s, i + 1) ELSE i

\* the number spelled by the digits at positions i .. j-1, appended to acc
RECURSIVE DigitsValue(_, _, _, _)
DigitsValue(s, i, j, acc) ==
    IF i >= j THEN acc
    ELSE DigitsValue(s, i + 1, j, acc * 10 + DigitValue(Char(s, i)))

\* the position after an optional sign
AfterSign(s, i) == IF Char(s, i) \in {"+", "-"} THEN i + 1 ELSE i

SyntaxError == [error |-> "invalid syntax"]

\* the digits at i .. Len(s), if that is what the rest of s is
IntFrom(s, neg, i) ==
    IF i <= Len(s) /\ DigitsEnd(s, i) = Len(s) + 1
    THEN [v   |-> IF neg THEN -DigitsValue(s, i, Len(s) + 1, 0)
                  ELSE DigitsValue(s, i, Len(s) + 1, 0),
          err |-> Nil]
    ELSE [v |-> 0, err |-> SyntaxError]

ParseInt(s) == IntFrom(s, Char(s, 1) = "-", AfterSign(s, 1))

\* [-]m * 10^x correctly rounded
Decimal(neg, m, x) ==
    IF x >= 0 THEN DivRound(neg, BigMul(BigOf(m), BigPow(10, x)), BigOf(1), 0)
    ELSE DivRound(neg, BigOf(m), BigPow(10, -x), 0)

\* mantissa m, d of its digits after the point, the exponent digits at
\* i .. Len(s) with their sign
FloatExponent(s, neg, m, d, eneg, i) ==
    IF i <= Len(s) /\ DigitsEnd(s, i) = Len(s) + 1
    THEN [v   |-> Decimal(neg, m,
                          (IF eneg THEN -DigitsValue(s, i, Len(s) + 1, 0)
                           ELSE DigitsValue(s, i, Len(s) + 1, 0)) - d),
          err |-> Nil]
    ELSE [v |-> FZero, err |-> SyntaxError]

\* after the mantissa, which ends before position k
FloatTail(s, neg, m, d, k) ==
    IF k = Len(s) + 1 THEN [v |-> Decimal(neg, m, -d), err |-> Nil]
    ELSE IF Char(s, k) \in {"e", "E"}
    THEN FloatExponent(s, neg, m, d, Char(s, k + 1) = "-", AfterSign(s, k + 1))
    ELSE [v |-> FZero, err |-> SyntaxError]

\* integer digits at i .. j-1, fraction digits at f .. k-1
FloatMantissa(s, neg, i, j, f, k) ==
    IF (j - i) + (k - f) = 0 THEN [v |-> FZero, err |-> SyntaxError]
    ELSE FloatTail(s, neg, DigitsValue(s, f, k, DigitsValue(s, i, j, 0)), k - f, k)

\* integer digits at i .. j-1
FloatFraction(s, neg, i, j) ==
    IF Char(s, j) = "."
    THEN FloatMantissa(s, neg, i, j, j + 1, DigitsEnd(s, j + 1))
    ELSE FloatMantissa(s, neg, i, j, j, j)

FloatFrom(s, neg, i) == FloatFraction(s, neg, i, DigitsEnd(s, i))

ParseFloat(s) == FloatFrom(s, Char(s, 1) = "-", AfterSign(s, 1))

\* the error of the parse kept as the value
parseCachedFloat_Mut(s) ==
    IF ParseFloat(s).err = Nil THEN ParseFloat(s).v ELSE FInt(-1)

(* lines 693-700.  parseCache holds for a string the value ParseFloat gave
   it on the miss that stored it, so a hit and a miss return the same
   value; the error of the parse is dropped. *)
parseCachedFloat(s) == ParseFloat(s).v

----------------------------------------------------------------------------
(* generateInvestmentPlan, src/main.go:747-776 *)

allocationByYears_Mut ==
    << [years |-> 5,   stocks |-> 30, bonds |-> 50, cash |-> 20],
       [years |-> 15,  stocks |-> 60, bonds |-> 30, cash |-> 15],
       [years |-> 999, stocks |-> 80, bonds |-> 15, cash |-> 5] >>

(* src/main.go:165-174: each band's threshold in years and its fractions,
   written as the hundredths of the decimal literals (0.30 is 30) *)
allocationByYears ==
    << [years |-> 5,   stocks |-> 30, bonds |-> 50, cash |-> 20],
       [years |-> 15,  stocks |-> 60, bonds |-> 30, cash |-> 10],
       [years |-> 999, stocks |-> 80, bonds |-> 15, cash |-> 5] >>

\* the float64 a decimal literal with two decimals stands for
Frac(hundredths) == FDec(FALSE, hundredths, 2)

\* the float64 fields of a band
Fractions(band) ==
    [stocks |-> Frac(band.stocks), bonds |-> Frac(band.bonds), cash |-> Frac(band.cash)]

(* the band scan, lines 751-759: the index of the first band with
   years <= band.years, 0 when the loop ends without a break *)
RECURSIVE FirstBand(_, _)
FirstBand(years, i) ==
    IF i > Len(allocationByYears) THEN 0
    ELSE IF years <= allocationByYears[i].years THEN i
    ELSE FirstBand(years, i + 1)

\* line 750: the values stocks, bonds, cash start with
DefaultBand == [stocks |-> 30, bonds |-> 50, cash |-> 20]

SelectAllocation_Mut(years) ==
    Fractions(IF FirstBand(years + 1, 1) = 0 THEN DefaultBand
              ELSE allocationByYears[FirstBand(years + 1, 1)])

\* lines 750-759: stocks, bonds, cash after the loop
SelectAllocation(years) ==
    Fractions(IF FirstBand(years, 1) = 0 THEN DefaultBand
              ELSE allocationByYears[FirstBand(years, 1)])

\* "%.0f%%" of a fraction times 100
Percentage(x) == Format(FMul(x, FInt(100)), 0)

\* lines 765-769
RenderAllocation(a) ==
    [stocks |-> Percentage(a.stocks),
     bonds  |-> Percentage(a.bonds),
     cash   |-> Percentage(a.cash)]

generateInvestmentPlan(goal, timeHorizon, currentAmount, monthlyCapacity) ==
    LET years == parseTimeHorizonFast(timeHorizon) IN
    [ goal                   |-> goal,
      time_horizon           |-> timeHorizon,
      current_amount         |-> currentAmount,
      recommended_allocation |-> RenderAllocation(SelectAllocation(years)),
      annual_contribution    |-> monthlyCapacity * 12,
      monthly_investment     |-> monthlyCapacity,
      estimated_growth_rate  |-> "6-8% annually",
      key_strategies         |-> <<"Dollar-cost averaging", "Automatic rebalancing",
                                   "Tax-efficient investing">>,
      next_steps             |-> "Review fund options, set up automatic transfers, monitor quarterly" ]

----------------------------------------------------------------------------
(* calculateCompoundGrowth, src/main.go:709-744 *)

FOne == FInt(1)

\* the literal 1e-12 of line 720
Epsilon == FDec(FALSE, 1, 12)

(* math.Pow(x, y) for x > 0 and an integral y, as the Go library computes
   it: 1 for y = 0 or x = 1, x for y = 1, and otherwise square-and-multiply
   over the bits of |y|, each product rounded, inverted for y < 0 *)
RECURSIVE PowLoop(_, _, _)
PowLoop(a1, x1, i) ==
    IF i = 0 THEN a1
    ELSE PowLoop(IF i % 2 = 1 THEN FMul(a1, x1) ELSE a1, FMul(x1, x1), i \div 2)

\* the loop's result a1, inverted for a negative exponent
PowSigned(a1, y) == IF y < 0 THEN FDiv(FOne, a1) ELSE a1

Pow(x, y) ==
    IF y = 0 \/ x = FOne THEN FOne
    ELSE IF y = 1 THEN x
    ELSE PowSigned(PowLoop(FOne, x, IF y < 0 THEN -y ELSE y), y)

\* line 710
MonthlyRate(returnRate) == FDiv(FDiv(returnRate, FInt(100)), FInt(12))

\* the guard of the zero rate left out
AnnuityBranch_Mut(monthlyRate) == "general"

\* lines 719-724: which branch computes fvAnnuity
AnnuityBranch(monthlyRate) ==
    IF FLess(monthlyRate, Epsilon) THEN "simple" ELSE "general"

\* line 723
GeneralAnnuity(monthly, monthlyRate, years) ==
    FMul(monthly,
         FDiv(FSub(Pow(FAdd(FOne, monthlyRate), years * 12), FOne), monthlyRate))

\* lines 715-724: fvInitial and fvAnnuity, added to the locals f
FutureValues(f) ==
    f @@ [fvInitial |-> FMul(f.initial,
                             Pow(FAdd(FOne, f.monthlyRate), f.years * 12)),
          branch    |-> AnnuityBranch(f.monthlyRate),
          fvAnnuity |-> IF AnnuityBranch(f.monthlyRate) = "simple"
                        THEN FMul(f.monthly, f.months)
                        ELSE GeneralAnnuity(f.monthly, f.monthlyRate, f.years)]

\* the contributions taken as the value of the annuity
Totals_Mut(f) ==
    f @@ [total            |-> FAdd(f.fvInitial, f.fvAnnuity),
          totalContributed |-> FAdd(f.initial, f.fvAnnuity)]

\* lines 726-727
Totals(f) ==
    f @@ [total            |-> FAdd(f.fvInitial, f.fvAnnuity),
          totalContributed |-> FAdd(f.initial, FMul(f.monthly, f.months))]

\* the difference taken the other way round
Earnings_Mut(f) == f @@ [earnings |-> FSub(f.totalContributed, f.total)]

\* line 728
Earnings(f) == f @@ [earnings |-> FSub(f.total, f.totalContributed)]

\* lines 729-732
EarningsPercent(f) ==
    f @@ [earningsPercent |-> IF FLess(FZero, f.total)
                              THEN FMul(FDiv(f.earnings, f.total), FInt(100))
                              ELSE FZero]

\* lines 709-732: the parameters and the locals of calculateCompoundGrowth
GrowthFrame(initial, monthly, returnRate, years) ==
    EarningsPercent(Earnings(Totals(FutureValues(
        [initial     |-> initial,
         monthly     |-> monthly,
         years       |-> years,
         monthlyRate |-> MonthlyRate(returnRate),
         months      |-> FInt(years * 12)]))))

\* lines 734-743: the returned map; a formatted string is held as the
\* number its digits spell
GrowthResult(initial, monthly, returnRate, years, f) ==
    [ initial_investment   |-> initial,
      monthly_contribution |-> monthly,
      total_contributed    |-> f.totalContributed,
      projected_earnings   |-> Format(f.earnings, 2),
      projected_total      |-> Format(f.total, 2),
      years                |-> years,
      annual_return_rate   |-> Format(returnRate, 1),
      power_of_compounding |-> Format(f.earningsPercent, 1) ]

calculateCompoundGrowth(initial, monthly, returnRate, years) ==
    GrowthResult(initial, monthly, returnRate, years,
                 GrowthFrame(initial, monthly, returnRate, years))

(* The loop the closed form replaced (src/unnamed/part_000:50-52): month i
   of 0 .. months-1 adds the contribution of that month compounded over the
   months - i - 1 months that remain *)
RECURSIVE MonthlyContributions(_, _, _, _, _)

\* the sum after month i, computed before the next month starts
NextMonth(monthly, monthlyRate, months, i, next) ==
    IF next.m = <<>>
    THEN MonthlyContributions(monthly, monthlyRate, months, i + 1, FZero)
    ELSE MonthlyContributions(monthly, monthlyRate, months, i + 1, next)

MonthlyContributions(monthly, monthlyRate, months, i, monthlyContributions) ==
    IF i >= months THEN monthlyContributions
    ELSE NextMonth(monthly, monthlyRate, months, i,
                   FAdd(monthlyContributions,
                        FMul(monthly,
                             Pow(FAdd(FOne, monthlyRate), months - i - 1))))

\* the total with the loop in the place of the closed form of the annuity
LoopTotal(initial, monthly, monthlyRate, months) ==
    FAdd(FMul(initial, Pow(FAdd(FOne, monthlyRate), months)),
         MonthlyContributions(monthly, monthlyRate, months, 0, FZero))

BruteForceTotal(initial, monthly, returnRate, years) ==
    LoopTotal(initial, monthly, MonthlyRate(returnRate), years * 12)

----------------------------------------------------------------------------
(* calculateDynamicRiskScore and getRiskLevelFromScore, src/main.go:869-926 *)

\* "moderate" worth 30
IncomeStabilityPoints_Mut(incomeStability) ==
    CASE incomeStability = "unstable" -> 15
      [] incomeStability = "moderate" -> 30
      [] incomeStability = "stable"   -> 40
      [] OTHER -> 0

\* lines 873-880: a switch without default
IncomeStabilityPoints(incomeStability) ==
    CASE incomeStability = "unstable" -> 15
      [] incomeStability = "moderate" -> 28
      [] incomeStability = "stable"   -> 40
      [] OTHER -> 0

\* lines 883-890
TxFrequencyPoints(txFrequency) ==
    CASE txFrequency = "low"    -> 25
      [] txFrequency = "medium" -> 15
      [] txFrequency = "high"   -> 5
      [] OTHER -> 0

\* lines 893-900
SavingsConsistencyPoints(savingsConsistency) ==
    CASE savingsConsistency = "inconsistent" -> 5
      [] savingsConsistency = "moderate"     -> 15
      [] savingsConsistency = "excellent"    -> 25
      [] OTHER -> 0

\* lines 903-911
EmergencyFundPoints(emergencyMonths) ==
    IF emergencyMonths >= 12 THEN 20
    ELSE IF emergencyMonths >= 6 THEN 15
    ELSE IF emergencyMonths >= 3 THEN 10
    ELSE 5

calculateDynamicRiskScore(incomeStability, txFrequency, savingsConsistency, emergencyMonths) ==
      IncomeStabilityPoints(incomeStability)
    + TxFrequencyPoints(txFrequency)
    + SavingsConsistencyPoints(savingsConsistency)
    + EmergencyFundPoints(emergencyMonths)

\* the third tier starting above 35
getRiskLevelFromScore_Mut(score) ==
    IF score >= 70 THEN "Aggressive"
    ELSE IF score >= 50 THEN "Moderate-to-Aggressive"
    ELSE IF score > 35 THEN "Moderate"
    ELSE "Conservative"

getRiskLevelFromScore(score) ==
    IF score >= 70 THEN "Aggressive"
    ELSE IF score >= 50 THEN "Moderate-to-Aggressive"
    ELSE IF score >= 35 THEN "Moderate"
    ELSE "Conservative"

\* the value of a natural small enough for an int
RECURSIVE BigToInt(_)
BigToInt(x) == IF x = <<>> THEN 0 ELSE Head(x) + Base * BigToInt(Tail(x))

\* |a| with the fraction dropped
Truncated(a) == IF a.e >= 0 THEN ShiftLeft(a.m, a.e) ELSE ShiftRight(a.m, -a.e)

\* int(a) of a float64 a: the fraction is discarded (line 656)
IntOf(a) == IF a.neg THEN -BigToInt(Truncated(a)) ELSE BigToInt(Truncated(a))

\* the error of a failed json.Unmarshal, wrapped (line 650)
InvalidInput == [error |-> "invalid input"]

\* lines 654-669: the handler of dynamic_risk_assessment for decoded params
DynamicRiskResult(incomeStability, txFrequency, savingsConsistency, monthsEmergencyFund, riskScore) ==
    [ income_stability      |-> incomeStability,
      transaction_pattern   |-> txFrequency,
      savings_consistency   |-> savingsConsistency,
      emergency_fund_months |-> Format(monthsEmergencyFund, 1),
      calculated_risk_score |-> riskScore,
      recommended_profile   |-> getRiskLevelFromScore(riskScore),
      action_plan           |-> <<"Emergency fund is adequate",
                                  "Proceed with recommended allocation",
                                  "Review quarterly based on transaction patterns">> ]

----------------------------------------------------------------------------
(* The handler of calculate_investment_projection, src/main.go:302-321 *)

\* lines 314-317: the decoded params parsed
ProjectionFrame(initialAmount, monthlyAddition, expectedReturn, years) ==
    [initial    |-> parseCachedFloat(initialAmount),
     monthly    |-> parseCachedFloat(monthlyAddition),
     returnRate |-> parseCachedFloat(expectedReturn),
     years      |-> ParseInt(years).v]

\* lines 319-320
ProjectionResult(f) ==
    [result |-> calculateCompoundGrowth(f.initial, f.monthly, f.returnRate, f.years),
     err    |-> Nil]

----------------------------------------------------------------------------
(* The handlers that return an id: start_automated_investing,
   src/main.go:387-412, and create_investment_goal_with_transfer,
   src/main.go:511-542 *)

\* fmt.Sprintf("%d", n) for n >= 0
RECURSIVE Itoa(_)
Itoa(n) ==
    IF n < 10 THEN SubSeq("0123456789", n + 1, n + 1)
    ELSE Itoa(n \div 10) \o SubSeq("0123456789", (n % 10) + 1, (n % 10) + 1)

\* every digit of the process id kept
generateRandomID_Mut == Itoa(pid)

\* lines 852-855
generateRandomID == Itoa(pid % 100000)

\* lines 847-850: "$%.2f" of the monthly amount * 12
calculateAnnualContribution(monthlyStr) ==
    Format(FMul(parseCachedFloat(monthlyStr), FInt(12)), 2)

\* lines 398-411
StartInvestingResult(monthlyAmount, investmentType, strategy, startDate) ==
    [result |->
        [success |-> TRUE,
         plan_id |-> "plan_" \o generateRandomID,
         message |-> "Automated investment plan created: " \o monthlyAmount
                        \o "/month starting " \o startDate,
         details |-> [monthly_amount   |-> monthlyAmount,
                      investment_type  |-> investmentType,
                      strategy         |-> strategy,
                      start_date       |-> startDate,
                      projected_annual |-> calculateAnnualContribution(monthlyAmount)]],
     err |-> Nil]

\* lines 522-527, with months = 240 whatever the target date, and the
\* constant 1.07 / 12 folded exactly and rounded once
GoalFrame(targetAmount, targetDate, monthlyContribution) ==
    [targetAmount  |-> parseCachedFloat(targetAmount),
     monthlyAmount |-> parseCachedFloat(monthlyContribution),
     months        |-> 240,
     projection    |->
        FMul(parseCachedFloat(monthlyContribution),
             FDiv(FSub(Pow(FDec(FALSE, 107, 2), 240 \div 12), FOne),
                  DivRound(FALSE, BigOf(107), BigOf(1200), 0)))]

\* lines 529-541
GoalResult(goalName, targetDate, investmentType, f) ==
    [result |->
        [success         |-> TRUE,
         goal_id         |-> "goal_" \o generateRandomID,
         goal_name       |-> goalName,
         target_amount   |-> Format(f.targetAmount, 2),
         target_date     |-> targetDate,
         monthly_fund    |-> Format(f.monthlyAmount, 2),
         investment_type |-> investmentType,
         projected_total |-> Format(f.projection, 2),
         liminal_status  |-> "Ready to link Liminal account for automatic transfers",
         message         |-> "Investment goal '" \o goalName
                                \o "' created! Set up automatic transfers from your Liminal account."],
     err |-> Nil]

----------------------------------------------------------------------------
(* The handler of rebalance_investment_portfolio, src/main.go:554-588 *)

\* x / 0 in float64
DivisionByZero(x) ==
    IF x.m = <<>> THEN [special |-> "NaN"]
    ELSE IF x.neg THEN [special |-> "-Inf"] ELSE [special |-> "+Inf"]

\* (x / total) * 100
SharePercent(x, total) ==
    IF total.m = <<>> THEN DivisionByZero(x)
    ELSE FMul(FDiv(x, total), FInt(100))

\* "%.1f%%"
PrintShare(p) == IF "special" \in DOMAIN p THEN p ELSE Format(p, 1)

\* p > 0.1
ShareAboveTenth(p) ==
    IF "special" \in DOMAIN p THEN p.special = "+Inf"
    ELSE FLess(FDec(FALSE, 1, 1), p)

\* lines 567-573
RebalanceFrame(stocksValue, bondsValue, cashValue, targetRiskLevel) ==
    [stocks      |-> parseCachedFloat(stocksValue),
     bonds       |-> parseCachedFloat(bondsValue),
     cash        |-> parseCachedFloat(cashValue),
     total       |-> FAdd(FAdd(parseCachedFloat(stocksValue),
                               parseCachedFloat(bondsValue)),
                          parseCachedFloat(cashValue)),
     targetAlloc |-> getRiskAllocation(targetRiskLevel)]

\* lines 575-588
RebalanceResult(f) ==
    [result |->
        [ current_allocation |->
              [stocks |-> PrintShare(SharePercent(f.stocks, f.total)),
               bonds  |-> PrintShare(SharePercent(f.bonds, f.total)),
               cash   |-> PrintShare(SharePercent(f.cash, f.total))],
          target_allocation  |-> f.targetAlloc,
          total_value        |-> Format(f.total, 2),
          rebalancing_needed |-> ShareAboveTenth(SharePercent(f.stocks, f.total)),
          action_items       |->
              <<"Use Liminal transfers to move funds between investment accounts",
                "Execute rebalancing gradually over 2-4 weeks",
                "Monitor tax implications of trades">> ],
     err |-> Nil]

----------------------------------------------------------------------------
(* The handler of calculate_smart_savings_rate, src/main.go:465-494 *)

\* a handler that refuses an income of zero
SmartSavingsResult_Mut(income, savings, emergency) ==
    IF income.m = <<>> THEN [result |-> Nil, err |-> [error |-> "zero income"]]
    ELSE [result |-> [monthly_income |-> Format(income, 2)], err |-> Nil]

\* lines 474-493 on the parsed income, savings and emergency fund goal
SmartSavingsResult(income, savings, emergency) ==
    [result |->
        [monthly_income              |-> Format(income, 2),
         current_emergency_fund      |-> Format(savings, 2),
         emergency_fund_target       |-> Format(emergency, 2),
         recommended_monthly_savings |-> Format(FMul(income, FDec(FALSE, 20, 2)), 2),
         priority_emergency_fund     |-> Format(FDiv(FSub(emergency, savings), FInt(24)), 2),
         investment_budget           |->
            Format(FSub(FMul(income, FDec(FALSE, 20, 2)),
                        FDiv(FSub(emergency, savings), FInt(24))), 2),
         savings_rate                |->
            PrintShare(SharePercent(FMul(income, FDec(FALSE, 20, 2)), income)),
         time_to_goal                |-> "24 months to emergency fund target"],
     err |-> Nil]

----------------------------------------------------------------------------
(* Inputs *)

Ages == -1 .. MaxAge

YearsToRetirement == 0 .. MaxYearsToRetirement

ComfortInputs == DOMAIN comfortRiskScore \cup {"", "Comfortable", "uneasy"}

ExperienceInputs == DOMAIN experienceRiskScore \cup {"", "expert"}

HorizonInputs ==
    DOMAIN timeHorizonTable \cup {"", "3", "15", "30", "20 +", "2", "1-5"}

Goals == {"retirement", "general_wealth"}

\* whole-dollar amounts
Amounts == {0, 1000, 5000}

Contributions == {0, 100, 500}

(* annual return percentages as the decimal literals they arrive as:
   [-]m / 10^d *)
RateLiterals ==
    { [neg |-> FALSE, m |-> 0,  d |-> 0],
      [neg |-> FALSE, m |-> 7,  d |-> 0],
      [neg |-> FALSE, m |-> 20, d |-> 0],
      [neg |-> FALSE, m |-> 45, d |-> 1],
      [neg |-> FALSE, m |-> 13, d |-> 10],
      [neg |-> FALSE, m |-> 2,  d |-> 9],
      [neg |-> TRUE,  m |-> 12, d |-> 0],
      [neg |-> TRUE,  m |-> 1,  d |-> 0] }

\* a few short horizons and the 20 years of the documented example
Years == 0 .. MaxYears \cup {20}

\* the three documented values, the empty string of an absent field, and a
\* string outside the documented values
IncomeStabilityInputs == {"unstable", "moderate", "stable", "", "Stable"}

TxFrequencyInputs == {"low", "medium", "high", "", "daily"}

SavingsConsistencyInputs == {"inconsistent", "moderate", "excellent", "", "good"}

(* months of emergency fund as the JSON numbers they arrive as, [-]m / 10^d:
   0 (also the value of an absent field), 2.9, 3, 5.5, 6, 11.9, 12, 24, -1 *)
MonthLiterals ==
    { [neg |-> FALSE, m |-> 0,   d |-> 0],
      [neg |-> FALSE, m |-> 29,  d |-> 1],
      [neg |-> FALSE, m |-> 3,   d |-> 0],
      [neg |-> FALSE, m |-> 55,  d |-> 1],
      [neg |-> FALSE, m |-> 6,   d |-> 0],
      [neg |-> FALSE, m |-> 119, d |-> 1],
      [neg |-> FALSE, m |-> 12,  d |-> 0],
      [neg |-> FALSE, m |-> 24,  d |-> 0],
      [neg |-> TRUE,  m |-> 1,   d |-> 0] }

\* amounts and rates as the strings the tools receive: numbers, and text that
\* is no number
InitialAmountStrings == {"5000", "1000.50", "5e3", "$5000", ""}

MonthlyAdditionStrings == {"500", "abc", "1,000"}

ExpectedReturnStrings == {"7", "4.5", "7%", "seven"}

YearsStrings == {"20", "2", "+1", "20+", "7.5", "", "two", " 2"}

StocksValueStrings == {"3000", "0", "abc"}

BondsValueStrings == {"1500", "0"}

CashValueStrings == {"500", "0"}

\* the three values the tool documents, the keys of the table, and others
TargetRiskLevels ==
    {"conservative", "moderate", "aggressive", "Aggressive", ""}
        \cup DOMAIN riskAllocationCache

\* start_date of start_automated_investing, target_date of
\* create_investment_goal_with_transfer
DateStrings == {"2028-11-01", "2046-11-01"}

\* the strings that concurrent callers of parseCachedFloat pass
CacheStrings == {"500", "abc"}

\* lines 28-174: the package-level tables as initialized
InitialTables ==
    [riskAllocationCache |-> riskAllocationCache,
     strategiesCache     |-> strategiesCache,
     conceptCache        |-> conceptCache,
     timeHorizonTable    |-> timeHorizonTable,
     ageRiskScore        |-> ageRiskScore,
     comfortRiskScore    |-> comfortRiskScore,
     experienceRiskScore |-> experienceRiskScore,
     allocationByYears   |-> allocationByYears,
     mockPortfolios      |->
        [default |-> [TotalBalance      |-> 5000,
                      SavingsAllocation |-> 3000,
                      StockAllocation   |-> 2000,
                      RiskTolerance     |-> "moderate",
                      MonthlySavings    |-> 500,
                      AgeGroup          |-> "30s"]]]

\* process ids below and above the modulus of generateRandomID
Pids == {4242, 104242}

\* tools.LiminalTools(liminalExecutor), as lines 222-230 list them
LiminalTools ==
    <<"get_balance", "get_savings_balance", "get_vault_rates", "get_transactions",
      "get_profile", "search_users", "send_money", "deposit_savings",
      "withdraw_savings">>

\* the last tool registered under the name of the first
CustomTools_Mut ==
    <<"get_investment_profile", "analyze_investment_recommendations",
      "calculate_investment_projection", "assess_investment_risk_profile",
      "explain_investment_concept", "start_automated_investing",
      "analyze_real_spending_patterns", "calculate_smart_savings_rate",
      "create_investment_goal_with_transfer", "rebalance_investment_portfolio",
      "identify_savings_boosters", "get_investment_profile">>

\* the names given to tools.New, in the order of the srv.AddTool calls
CustomTools ==
    <<"get_investment_profile", "analyze_investment_recommendations",
      "calculate_investment_projection", "assess_investment_risk_profile",
      "explain_investment_concept", "start_automated_investing",
      "analyze_real_spending_patterns", "calculate_smart_savings_rate",
      "create_investment_goal_with_transfer", "rebalance_investment_portfolio",
      "identify_savings_boosters", "dynamic_risk_assessment">>

----------------------------------------------------------------------------
(* The state machine: main checks the environment, creates the server,
   registers the tools and runs the server; then the caller invokes one
   function on inputs of the bounded sets, takes its result, and is ready
   for the next call *)

NoFrame == [none |-> TRUE]

\* the process starts main in some environment: ANTHROPIC_API_KEY is unset
\* or empty, or set; no call yet
Init ==
    /\ call = [fn |-> "none"]
    /\ frame = NoFrame
    /\ ret = [none |-> TRUE]
    /\ pc = "getenv"
    /\ anthropicKey \in {"", "sk-ant-key"}
    /\ pid \in Pids
    /\ srv = "none"
    /\ registered = <<>>
    /\ parseCache = [s \in CacheStrings |-> Nil]
    /\ tables = InitialTables
    /\ caller = [c \in 1 .. MaxCallers |-> [pc |-> "idle"]]

\* lines 181-184: log.Fatal ends the process when the key is empty
GetAPIKey ==
    /\ pc = "getenv"
    /\ pc' = IF anthropicKey = "" THEN "fatal" ELSE "newServer"
    /\ UNCHANGED <<call, frame, ret, anthropicKey, pid, srv, registered, sharedVars>>

\* lines 192-217: server.New returns the server or an error, which is fatal
NewServer ==
    /\ pc = "newServer"
    /\ \E err \in BOOLEAN :
          /\ pc' = IF err THEN "fatal" ELSE "addLiminalTools"
          /\ srv' = IF err THEN srv ELSE "created"
    /\ UNCHANGED <<call, frame, ret, anthropicKey, pid, registered, sharedVars>>

\* line 233
AddLiminalTools ==
    /\ pc = "addLiminalTools"
    /\ registered' = registered \o LiminalTools
    /\ pc' = "addTool"
    /\ UNCHANGED <<call, frame, ret, anthropicKey, pid, srv, sharedVars>>

\* the srv.AddTool calls of lines 260-674, one after the other
AddTool ==
    /\ pc = "addTool"
    /\ registered' = Append(registered, CustomTools[Len(registered) - Len(LiminalTools) + 1])
    /\ pc' = IF Len(registered') = Len(LiminalTools) + Len(CustomTools) THEN "run" ELSE "addTool"
    /\ UNCHANGED <<call, frame, ret, anthropicKey, pid, srv, sharedVars>>

\* line 683: srv.Run serves until it fails
Run ==
    /\ pc = "run"
    /\ srv' = "running"
    /\ pc' = "serving"
    /\ UNCHANGED <<call, frame, ret, anthropicKey, pid, registered, sharedVars>>

\* the server runs and no call is in progress
Idle == pc = "serving" /\ call.fn = "none"

AssessRiskProfile ==
    \E age \in Ages, ytr \in YearsToRetirement,
       comfort \in ComfortInputs, experience \in ExperienceInputs :
        /\ Idle
        /\ UNCHANGED <<serverVars, sharedVars>>
        /\ call' = [fn |-> "assessRiskProfile", age |-> age,
                    yearsToRetirement |-> ytr,
                    downturnComfort |-> comfort, experience |-> experience]
        /\ frame' = IF age < 0 THEN NoFrame
                    ELSE [ageScore  |-> AgeScore(age),
                          riskScore |-> RiskScore(age, comfort, experience),
                          riskLevel |-> RiskLevel(RiskScore(age, comfort, experience))]
        /\ ret' = assessRiskProfile(age, ytr, comfort, experience)

\* the level selection of lines 806-812 on its own, for any score
RiskLevelStep ==
    \E riskScore \in -MaxScore .. MaxScore :
        /\ Idle
        /\ UNCHANGED <<serverVars, sharedVars>>
        /\ call' = [fn |-> "RiskLevel", riskScore |-> riskScore]
        /\ frame' = NoFrame
        /\ ret' = RiskLevel(riskScore)

ParseTimeHorizonFast ==
    \E horizon \in HorizonInputs :
        /\ Idle
        /\ UNCHANGED <<serverVars, sharedVars>>
        /\ call' = [fn |-> "parseTimeHorizonFast", horizon |-> horizon]
        /\ frame' = NoFrame
        /\ ret' = parseTimeHorizonFast(horizon)

\* the band scan of lines 751-759 on its own, for any year count
SelectAllocationStep ==
    \E years \in 0 .. MaxBandYears :
        /\ Idle
        /\ UNCHANGED <<serverVars, sharedVars>>
        /\ call' = [fn |-> "SelectAllocation", years |-> years]
        /\ frame' = [band |-> FirstBand(years, 1)]
        /\ ret' = RenderAllocation(SelectAllocation(years))

GenerateInvestmentPlan ==
    \E goal \in Goals, horizon \in HorizonInputs,
       current \in Amounts, monthly \in Contributions :
        /\ Idle
        /\ UNCHANGED <<serverVars, sharedVars>>
        /\ call' = [fn |-> "generateInvestmentPlan", goal |-> goal,
                    timeHorizon |-> horizon, currentAmount |-> current,
                    monthlyCapacity |-> monthly]
        /\ frame' = [years |-> parseTimeHorizonFast(horizon)]
        /\ ret' = generateInvestmentPlan(goal, horizon, current, monthly)

CalculateCompoundGrowth ==
    \E i \in Amounts, c \in Contributions, lit \in RateLiterals, years \in Years :
        /\ Idle
        /\ UNCHANGED <<serverVars, sharedVars>>
        /\ call' = [fn |-> "calculateCompoundGrowth", initial |-> FInt(i),
                    monthly |-> FInt(c),
                    returnRate |-> FDec(lit.neg, lit.m, lit.d), years |-> years]
        /\ frame' = GrowthFrame(call'.initial, call'.monthly, call'.returnRate,
                                call'.years)
        /\ ret' = calculateCompoundGrowth(call'.initial, call'.monthly,
                                          call'.returnRate, call'.years)

\* the tier selection of lines 917-926 on its own, for any score
GetRiskLevelFromScore ==
    \E score \in -MaxScore .. MaxScore :
        /\ Idle
        /\ UNCHANGED <<serverVars, sharedVars>>
        /\ call' = [fn |-> "getRiskLevelFromScore", score |-> score]
        /\ frame' = NoFrame
        /\ ret' = getRiskLevelFromScore(score)

(* The handler of dynamic_risk_assessment, lines 643-669: an input that does
   not decode ends it with the error; a decoded one is scored *)
DynamicRiskAssessment ==
    /\ Idle
    /\ UNCHANGED <<serverVars, sharedVars>>
    /\ \/ /\ call' = [fn |-> "dynamic_risk_assessment", decoded |-> FALSE]
          /\ frame' = NoFrame
          /\ ret' = [result |-> Nil, err |-> InvalidInput]
       \/ \E income \in IncomeStabilityInputs, tx \in TxFrequencyInputs,
             savings \in SavingsConsistencyInputs, lit \in MonthLiterals :
              /\ call' = [fn |-> "dynamic_risk_assessment", decoded |-> TRUE,
                          income_stability      |-> income,
                          transaction_frequency |-> tx,
                          savings_consistency   |-> savings,
                          months_emergency_fund |-> FDec(lit.neg, lit.m, lit.d)]
              /\ frame' = [emergencyMonths |-> IntOf(call'.months_emergency_fund),
                           riskScore |-> calculateDynamicRiskScore(
                                             income, tx, savings,
                                             IntOf(call'.months_emergency_fund))]
              /\ ret' = [result |-> DynamicRiskResult(
                                        income, tx, savings,
                                        call'.months_emergency_fund,
                                        frame'.riskScore),
                         err |-> Nil]

(* The handler of calculate_investment_projection: an input that does not
   decode ends it with the error; a decoded one is parsed and projected *)
CalculateInvestmentProjection ==
    /\ Idle
    /\ UNCHANGED <<serverVars, sharedVars>>
    /\ \/ /\ call' = [fn |-> "calculate_investment_projection", decoded |-> FALSE]
          /\ frame' = NoFrame
          /\ ret' = [result |-> Nil, err |-> InvalidInput]
       \/ \E initial \in InitialAmountStrings, monthly \in MonthlyAdditionStrings,
             rate \in ExpectedReturnStrings, years \in YearsStrings :
              /\ call' = [fn |-> "calculate_investment_projection",
                          decoded          |-> TRUE,
                          initial_amount   |-> initial,
                          monthly_addition |-> monthly,
                          expected_return  |-> rate,
                          years            |-> years]
              /\ frame' = ProjectionFrame(initial, monthly, rate, years)
              /\ ret' = ProjectionResult(frame')

\* the handler of rebalance_investment_portfolio
RebalanceInvestmentPortfolio ==
    /\ Idle
    /\ UNCHANGED <<serverVars, sharedVars>>
    /\ \/ /\ call' = [fn |-> "rebalance_investment_portfolio", decoded |-> FALSE]
          /\ frame' = NoFrame
          /\ ret' = [result |-> Nil, err |-> InvalidInput]
       \/ \E stocks \in StocksValueStrings, bonds \in BondsValueStrings,
             cash \in CashValueStrings, level \in TargetRiskLevels :
              /\ call' = [fn |-> "rebalance_investment_portfolio",
                          decoded              |-> TRUE,
                          current_stocks_value |-> stocks,
                          current_bonds_value  |-> bonds,
                          current_cash_value   |-> cash,
                          target_risk_level    |-> level]
              /\ frame' = RebalanceFrame(stocks, bonds, cash, level)
              /\ ret' = RebalanceResult(frame')

\* the handler of analyze_investment_recommendations, lines 271-288; the
\* amounts are texts of whole numbers or of no number, and the float64 that
\* parseCachedFloat returns for them is held as its integer value
AnalyzeInvestmentRecommendations ==
    /\ Idle
    /\ UNCHANGED <<serverVars, sharedVars>>
    /\ \/ /\ call' = [fn |-> "analyze_investment_recommendations", decoded |-> FALSE]
          /\ frame' = NoFrame
          /\ ret' = [result |-> Nil, err |-> InvalidInput]
       \/ \E horizon \in {"5", "20+", ""}, current \in {"5000", "abc"},
             monthly \in {"500", ""} :
              /\ call' = [fn |-> "analyze_investment_recommendations",
                          decoded          |-> TRUE,
                          goal             |-> "retirement",
                          time_horizon     |-> horizon,
                          current_amount   |-> current,
                          monthly_capacity |-> monthly]
              /\ frame' = [current |-> parseCachedFloat(current),
                           monthly |-> parseCachedFloat(monthly)]
              /\ ret' = [result |-> generateInvestmentPlan("retirement", horizon,
                                                          IntOf(frame'.current),
                                                          IntOf(frame'.monthly)),
                         err    |-> Nil]

\* the handler of calculate_smart_savings_rate
CalculateSmartSavingsRate ==
    /\ Idle
    /\ UNCHANGED <<serverVars, sharedVars>>
    /\ \/ /\ call' = [fn |-> "calculate_smart_savings_rate", decoded |-> FALSE]
          /\ frame' = NoFrame
          /\ ret' = [result |-> Nil, err |-> InvalidInput]
       \/ \E income \in {"5000", "0", "abc", "-100"}, savings \in {"1000", ""},
             emergency \in {"10000", "500"} :
              /\ call' = [fn |-> "calculate_smart_savings_rate",
                          decoded             |-> TRUE,
                          monthly_income      |-> income,
                          current_savings     |-> savings,
                          emergency_fund_goal |-> emergency]
              /\ frame' = [income    |-> parseCachedFloat(income),
                           savings   |-> parseCachedFloat(savings),
                           emergency |-> parseCachedFloat(emergency)]
              /\ ret' = SmartSavingsResult(frame'.income, frame'.savings, frame'.emergency)

\* the handler of explain_investment_concept; the description offers 'ETF',
\* 'dividend', 'diversification', 'compound_interest', 'dollar_cost_averaging'
ExplainInvestmentConcept ==
    /\ Idle
    /\ UNCHANGED <<serverVars, sharedVars>>
    /\ frame' = NoFrame
    /\ \/ /\ call' = [fn |-> "explain_investment_concept", decoded |-> FALSE]
          /\ ret' = [result |-> Nil, err |-> InvalidInput]
       \/ \E concept \in {"ETF", "etf", "dividend", "diversification", "compound_interest",
                           "dollar_cost_averaging", "Dividend", "bonds", ""} :
              /\ call' = [fn |-> "explain_investment_concept",
                          decoded |-> TRUE,
                          concept |-> concept]
              /\ ret' = [result |-> explainConcept(concept), err |-> Nil]

\* the handler of start_automated_investing
StartAutomatedInvesting ==
    /\ Idle
    /\ UNCHANGED <<serverVars, sharedVars>>
    /\ frame' = NoFrame
    /\ \/ /\ call' = [fn |-> "start_automated_investing", decoded |-> FALSE]
          /\ ret' = [result |-> Nil, err |-> InvalidInput]
       \/ \E monthly \in {"500", "250.50", "abc"}, type \in {"etf_portfolio", "savings"},
             start \in DateStrings :
              /\ call' = [fn |-> "start_automated_investing",
                          decoded         |-> TRUE,
                          monthly_amount  |-> monthly,
                          investment_type |-> type,
                          strategy        |-> "moderate",
                          start_date      |-> start]
              /\ ret' = StartInvestingResult(monthly, type, "moderate", start)

\* the handler of create_investment_goal_with_transfer
CreateInvestmentGoalWithTransfer ==
    /\ Idle
    /\ UNCHANGED <<serverVars, sharedVars>>
    /\ \/ /\ call' = [fn |-> "create_investment_goal_with_transfer", decoded |-> FALSE]
          /\ frame' = NoFrame
          /\ ret' = [result |-> Nil, err |-> InvalidInput]
       \/ \E target \in {"100000", ""}, date \in DateStrings,
             monthly \in {"500", "250.50", "abc"} :
              /\ call' = [fn |-> "create_investment_goal_with_transfer",
                          decoded              |-> TRUE,
                          goal_name            |-> "Retirement",
                          target_amount        |-> target,
                          target_date          |-> date,
                          monthly_contribution |-> monthly,
                          investment_type      |-> "etfs"]
              /\ frame' = GoalFrame(target, date, monthly)
              /\ ret' = GoalResult("Retirement", date, "etfs", frame')

\* the caller has the result; the functions keep nothing between calls
Return ==
    /\ call.fn # "none"
    /\ UNCHANGED <<serverVars, sharedVars>>
    /\ call' = [fn |-> "none"]
    /\ frame' = NoFrame
    /\ ret' = [none |-> TRUE]

Next ==
    \/ GetAPIKey
    \/ NewServer
    \/ AddLiminalTools
    \/ AddTool
    \/ Run
    \/ AssessRiskProfile
    \/ RiskLevelStep
    \/ ParseTimeHorizonFast
    \/ SelectAllocationStep
    \/ GenerateInvestmentPlan
    \/ CalculateCompoundGrowth
    \/ GetRiskLevelFromScore
    \/ DynamicRiskAssessment
    \/ CalculateInvestmentProjection
    \/ RebalanceInvestmentPortfolio
    \/ AnalyzeInvestmentRecommendations
    \/ CalculateSmartSavingsRate
    \/ ExplainInvestmentConcept
    \/ StartAutomatedInvesting
    \/ CreateInvestmentGoalWithTransfer
    \/ Return

Spec == Init /\ [][Next]_vars

----------------------------------------------------------------------------
(* Concurrent callers.  The server runs each tool call on its own goroutine;
   the calls share the parse cache and the package-level tables.  A caller
   is in no call (idle), between the Load and the Store of parseCachedFloat
   (store), or holds the result of a call (done).  A result is a value of
   its own, [value |-> v]; a map of a table, [whole |-> <<table, key>>]; or
   a new map some of whose fields are a map or a slice of a table,
   [fields |-> ..., shared |-> ...].  seen is what the result held when the
   call returned. *)

\* what a result holds now
Content(r) ==
    IF "value" \in DOMAIN r THEN r.value
    ELSE IF "whole" \in DOMAIN r THEN tables[r.whole[1]][r.whole[2]]
    ELSE [f \in DOMAIN r.fields \cup DOMAIN r.shared |->
             IF f \in DOMAIN r.shared
             THEN tables[r.shared[f][1]][r.shared[f][2]]
             ELSE r.fields[f]]

\* the server runs with every tool registered; no caller is in a call
SharedInit ==
    /\ call = [fn |-> "none"]
    /\ frame = NoFrame
    /\ ret = [none |-> TRUE]
    /\ pc = "serving"
    /\ anthropicKey = "sk-ant-key"
    /\ pid = 4242
    /\ srv = "running"
    /\ registered = LiminalTools \o CustomTools
    /\ parseCache = [s \in CacheStrings |-> Nil]
    /\ tables = InitialTables
    /\ caller = [c \in 1 .. MaxCallers |-> [pc |-> "idle"]]

\* a hit answered with the entry of any string that has one
CacheLoad_Mut(c) ==
    /\ caller[c].pc = "idle"
    /\ \E s \in CacheStrings, k \in CacheStrings :
          /\ parseCache[k] # Nil \/ k = s
          /\ caller' = [caller EXCEPT ![c] =
                           IF parseCache[s] # Nil
                           THEN [pc |-> "done", fn |-> "parseCachedFloat", arg |-> s,
                                 ret |-> [value |-> parseCache[k]], seen |-> parseCache[k]]
                           ELSE [pc |-> "store", fn |-> "parseCachedFloat", arg |-> s,
                                 v |-> ParseFloat(s).v]]
    /\ UNCHANGED <<call, frame, ret, serverVars, parseCache, tables>>

\* lines 694-697: parseCache.Load(s); a hit returns the entry, a miss
\* parses s
CacheLoad(c) ==
    /\ caller[c].pc = "idle"
    /\ \E s \in CacheStrings :
          caller' = [caller EXCEPT ![c] =
                        IF parseCache[s] # Nil
                        THEN [pc |-> "done", fn |-> "parseCachedFloat", arg |-> s,
                              ret |-> [value |-> parseCache[s]], seen |-> parseCache[s]]
                        ELSE [pc |-> "store", fn |-> "parseCachedFloat", arg |-> s,
                              v |-> ParseFloat(s).v]]
    /\ UNCHANGED <<call, frame, ret, serverVars, parseCache, tables>>

\* lines 698-699: parseCache.Store(s, v); return v
CacheStore(c) ==
    /\ caller[c].pc = "store"
    /\ parseCache' = [parseCache EXCEPT ![caller[c].arg] = caller[c].v]
    /\ caller' = [caller EXCEPT ![c] =
                     [pc |-> "done", fn |-> "parseCachedFloat", arg |-> @.arg,
                      ret |-> [value |-> @.v], seen |-> @.v]]
    /\ UNCHANGED <<call, frame, ret, serverVars, tables>>

\* an implementation that keeps the fallback of a miss in the table
ExplainConceptCall_Mut(c) ==
    /\ caller[c].pc = "idle"
    /\ \E concept \in {"etf", "ETF"} :
          /\ tables' = [tables EXCEPT !.conceptCache =
                           IF concept \in DOMAIN @ THEN @
                           ELSE (concept :> explainConcept(concept)) @@ @]
          /\ caller' = [caller EXCEPT ![c] =
                           [pc |-> "done", fn |-> "explainConcept", arg |-> concept,
                            ret |-> [whole |-> <<"conceptCache", concept>>],
                            seen |-> tables'.conceptCache[concept]]]
    /\ UNCHANGED <<call, frame, ret, serverVars, parseCache>>

\* lines 825-834: the map of the table itself for a concept with an entry,
\* a new map otherwise
ExplainConceptCall(c) ==
    /\ caller[c].pc = "idle"
    /\ \E concept \in {"etf", "ETF"} :
          caller' = [caller EXCEPT ![c] =
                        IF concept \in DOMAIN tables.conceptCache
                        THEN [pc |-> "done", fn |-> "explainConcept", arg |-> concept,
                              ret |-> [whole |-> <<"conceptCache", concept>>],
                              seen |-> tables.conceptCache[concept]]
                        ELSE [pc |-> "done", fn |-> "explainConcept", arg |-> concept,
                              ret |-> [value |-> explainConcept(concept)],
                              seen |-> explainConcept(concept)]]
    /\ UNCHANGED <<call, frame, ret, serverVars, parseCache, tables>>

\* lines 837-839: the map of the table itself, or the nil map
GetRiskAllocationCall(c) ==
    /\ caller[c].pc = "idle"
    /\ \E risk \in {"Conservative", "conservative"} :
          caller' = [caller EXCEPT ![c] =
                        IF risk \in DOMAIN tables.riskAllocationCache
                        THEN [pc |-> "done", fn |-> "getRiskAllocation", arg |-> risk,
                              ret |-> [whole |-> <<"riskAllocationCache", risk>>],
                              seen |-> tables.riskAllocationCache[risk]]
                        ELSE [pc |-> "done", fn |-> "getRiskAllocation", arg |-> risk,
                              ret |-> [value |-> Nil], seen |-> Nil]]
    /\ UNCHANGED <<call, frame, ret, serverVars, parseCache, tables>>

\* lines 814-821: a new map whose allocation_suggestion and
\* best_fit_strategies are the map and the slice of the tables
AssessRiskProfileCall(c) ==
    /\ caller[c].pc = "idle"
    /\ \E ytr \in {5, 30} :
          LET r == assessRiskProfile(60, ytr, "very_uncomfortable", "minimal")
              level == r.recommended_risk_level
              result ==
                  [fields |-> [age                    |-> r.age,
                               years_to_retirement    |-> r.years_to_retirement,
                               risk_score             |-> r.risk_score,
                               recommended_risk_level |-> level],
                   shared |-> [allocation_suggestion |-> <<"riskAllocationCache", level>>,
                               best_fit_strategies   |-> <<"strategiesCache", level>>]]
          IN caller' = [caller EXCEPT ![c] =
                           [pc |-> "done", fn |-> "assessRiskProfile",
                            arg |-> [age |-> 60, yearsToRetirement |-> ytr,
                                     downturnComfort |-> "very_uncomfortable",
                                     experience |-> "minimal"],
                            ret |-> result, seen |-> Content(result)]]
    /\ UNCHANGED <<call, frame, ret, serverVars, parseCache, tables>>

\* the caller changes a map or a slice of the result it holds: the
\* explanation of a concept, the stocks of an allocation, the first strategy
CallerWrites(c) ==
    /\ caller[c].pc = "done"
    /\ \E ref \in (IF "whole" \in DOMAIN caller[c].ret THEN {caller[c].ret.whole}
                   ELSE IF "shared" \in DOMAIN caller[c].ret
                   THEN {caller[c].ret.shared[f] : f \in DOMAIN caller[c].ret.shared}
                   ELSE {}) :
          tables' =
              CASE ref[1] = "conceptCache" ->
                     [tables EXCEPT !.conceptCache[ref[2]].explanation = "changed by the caller"]
                [] ref[1] = "riskAllocationCache" ->
                     [tables EXCEPT !.riskAllocationCache[ref[2]].stocks = "100%"]
                [] ref[1] = "strategiesCache" ->
                     [tables EXCEPT !.strategiesCache[ref[2]][1] = "changed by the caller"]
    /\ UNCHANGED <<call, frame, ret, serverVars, parseCache, caller>>

\* the caller is done with the result
CallerReturns(c) ==
    /\ caller[c].pc = "done"
    /\ caller' = [caller EXCEPT ![c] = [pc |-> "idle"]]
    /\ UNCHANGED <<call, frame, ret, serverVars, parseCache, tables>>

SharedNext ==
    \E c \in 1 .. MaxCallers :
        \/ CacheLoad(c)
        \/ CacheStore(c)
        \/ ExplainConceptCall(c)
        \/ GetRiskAllocationCall(c)
        \/ AssessRiskProfileCall(c)
        \/ CallerWrites(c)
        \/ CallerReturns(c)

SharedSpec == SharedInit /\ [][SharedNext]_vars

----------------------------------------------------------------------------
(* Properties *)

IsRiskCall == call.fn = "assessRiskProfile" /\ call.age >= 0

IsGrowthCall == call.fn = "calculateCompoundGrowth"

\* the text "<n>%" as Format holds it
Pct(n) == [neg |-> FALSE, units |-> BigOf(n)]

\* the three percentages of a recommended allocation
Alloc(stocks, bonds, cash) ==
    [stocks |-> Pct(stocks), bonds |-> Pct(bonds), cash |-> Pct(cash)]

(* C1: for every age in 0..119 the age component of the risk score is 70
   below 35, 50 from 35 to 49 and 30 from 50 on, and it is 30 for every age
   of 120 or more. *)
C1_AgeComponent ==
    IsRiskCall =>
        frame.ageScore = IF call.age < 35 THEN 70
                         ELSE IF call.age < 50 THEN 50
                         ELSE 30

ComfortValue(c) ==
    CASE c = "very_uncomfortable" -> 10
      [] c = "somewhat_uncomfortable" -> 25
      [] c = "neutral" -> 40
      [] c = "comfortable" -> 60
      [] c = "very_comfortable" -> 75
      [] OTHER -> 0

ExperienceValue(x) ==
    CASE x = "none" -> -20
      [] x = "minimal" -> -10
      [] x = "moderate" -> 0
      [] x = "extensive" -> 15
      [] OTHER -> 0

(* C2: the returned risk_score is the age component plus the comfort value
   plus the experience value, each an exact-match lookup that yields 0 for a
   string outside its table; age 28, "comfortable", "minimal" gives 120; the
   years to retirement do not enter the score. *)
C2_ScoreIsSum ==
    IsRiskCall =>
        /\ ret.risk_score = frame.ageScore + ComfortValue(call.downturnComfort)
                            + ExperienceValue(call.experience)
        /\ (call.age = 28 /\ call.downturnComfort = "comfortable"
              /\ call.experience = "minimal") => ret.risk_score = 120
        /\ ret.years_to_retirement = call.yearsToRetirement

C2_Witness ==
    /\ IsRiskCall
    /\ call.age = 28 /\ call.downturnComfort = "comfortable"
    /\ call.experience = "minimal" /\ call.yearsToRetirement = 1
    /\ ret.risk_score = 120

Tier(score) ==
    IF score > 60 THEN "Moderate-to-Aggressive"
    ELSE IF score > 40 /\ score <= 60 THEN "Moderate"
    ELSE "Conservative"

(* C3: the recommended risk level depends on the score alone:
   Moderate-to-Aggressive above 60, Moderate from 41 to 60, Conservative up
   to 40. *)
C3_LevelOfScore ==
    /\ IsRiskCall => ret.recommended_risk_level = Tier(ret.risk_score)
    /\ call.fn = "RiskLevel" =>
          /\ ret = Tier(call.riskScore)
          /\ call.riskScore = 60 => ret = "Moderate"
          /\ call.riskScore = 61 => ret = "Moderate-to-Aggressive"
          /\ call.riskScore = 40 => ret = "Conservative"
          /\ call.riskScore = 41 => ret = "Moderate"

C3_Witness ==
    /\ IsRiskCall /\ call.age = 40
    /\ ret.risk_score = 60 /\ ret.recommended_risk_level = "Moderate"

InClaimedDomain ==
    /\ IsRiskCall
    /\ call.age \in 0 .. 119
    /\ call.downturnComfort \in DOMAIN comfortRiskScore
    /\ call.experience \in DOMAIN experienceRiskScore

(* C4, as claimed: for every age in 0..119 and comfort and experience values
   of the two tables the risk score lies in 30..110. *)
C4_Range30To110 ==
    InClaimedDomain => ret.risk_score \in 30 .. 110

(* C4, amended: for every age in 0..119 and comfort and experience values of
   the two tables the risk score lies in -10..160. *)
C4_RangeOfScore ==
    InClaimedDomain => ret.risk_score \in -10 .. 160

C4_Witness ==
    InClaimedDomain /\ ret.risk_score = 160 /\ call.age = 34

BandOf(years) ==
    IF years <= 5 THEN Alloc(30, 50, 20)
    ELSE IF years <= 15 THEN Alloc(60, 30, 10)
    ELSE Alloc(80, 15, 5)

(* C5: generateInvestmentPlan takes the first band whose threshold is at
   least the normalized year count: 30/50/20 up to 5 years, 60/30/10 above 5
   and up to 15, 80/15/5 above; the horizon "20+" yields 80/15/5. *)
C5_AllocationOfPlan ==
    /\ call.fn = "generateInvestmentPlan" =>
          /\ ret.recommended_allocation = BandOf(frame.years)
          /\ call.timeHorizon = "20+" => ret.recommended_allocation = Alloc(80, 15, 5)
    /\ call.fn = "SelectAllocation" => ret = BandOf(call.years)

C5_Witness ==
    /\ call.fn = "generateInvestmentPlan"
    /\ call.timeHorizon = "20+"
    /\ frame.years = 20
    /\ ret.recommended_allocation = Alloc(80, 15, 5)

(* C6: parseTimeHorizonFast matches exactly: "1" and "1-3" give 2, "5" and
   "3-5" give 5, "10" gives 10, "20" and "20+" give 20, every other string
   gives 10. *)
C6_HorizonYears ==
    call.fn = "parseTimeHorizonFast" =>
        ret = CASE call.horizon \in {"1", "1-3"} -> 2
                [] call.horizon \in {"5", "3-5"} -> 5
                [] call.horizon = "10" -> 10
                [] call.horizon \in {"20", "20+"} -> 20
                [] OTHER -> 10

C6_Witness ==
    call.fn = "parseTimeHorizonFast" /\ call.horizon = "15" /\ ret = 10

Matching(years) ==
    {i \in 1 .. Len(allocationByYears) : years <= allocationByYears[i].years}

\* stocks + bonds + cash, as Go adds three float64 fields
SumOfFields(a) == FAdd(FAdd(a.stocks, a.bonds), a.cash)

FractionSum(i) == SumOfFields(Fractions(allocationByYears[i]))

SumOfUnits(r) == BigAdd(BigAdd(r.stocks.units, r.bonds.units), r.cash.units)

\* the sum of the three percentages a band is printed with
PrintedSum(i) == SumOfUnits(RenderAllocation(Fractions(allocationByYears[i])))

(* C7, as claimed: for every years value from 0 to 200 exactly one band
   matches (years <= band threshold), and in every band stocks + bonds +
   cash is 1.0 (100%). *)
C7_ExactlyOneBandMatches ==
    (call.fn = "SelectAllocation" /\ call.years \in 0 .. 200) =>
        /\ Cardinality(Matching(call.years)) = 1
        /\ \A i \in 1 .. Len(allocationByYears) :
              FractionSum(i) = FOne /\ PrintedSum(i) = BigOf(100)

(* C7, amended: for every years value from 0 to 200 at least one band
   matches (years <= band threshold) and the scan selects exactly one band,
   the first that matches; in every band the printed percentages of stocks,
   bonds and cash sum to 100, and the float64 sum of the three fractions is
   1.0 or the float64 next below it. *)
C7_FirstMatchingBand ==
    (call.fn = "SelectAllocation" /\ call.years \in 0 .. 200) =>
        /\ Matching(call.years) # {}
        /\ frame.band \in Matching(call.years)
        /\ \A i \in Matching(call.years) : frame.band <= i
        /\ ret = RenderAllocation(Fractions(allocationByYears[frame.band]))
        /\ \A i \in 1 .. Len(allocationByYears) :
              /\ PrintedSum(i) = BigOf(100)
              /\ FractionSum(i) \in {FOne, FSub(FOne, Fl(FALSE, BigOf(1), -53))}

C7_Witness ==
    /\ call.fn = "SelectAllocation" /\ call.years = 10
    /\ Matching(call.years) = {2, 3}
    /\ frame.band = 2

\* x <= y, of two exact values
Leq(x, y) == ~Negative(ExactSum(y, FNeg(x)))

\* |x - y| <= |y| / 10^6
\* |d| * 10^6 <= |y|
Within(d, y) ==
    Leq([neg |-> FALSE, m |-> BigMul(d.m, BigOf(1000000)), e |-> d.e],
        [neg |-> FALSE, m |-> y.m, e |-> y.e])

\* |x - y| <= |y| / 10^6
WithinTolerance(x, y) == Within(ExactSum(x, FNeg(y)), y)

RateIn0To20 ==
    ~FLess(call.returnRate, FZero) /\ ~FLess(FInt(20), call.returnRate)

(* C8: for initial >= 0, monthly >= 0, an annual return from 0% to 20% and
   0 to 50 years, the total of calculateCompoundGrowth is within 1e-6
   relative tolerance of the month-by-month loop the closed form
   replaced. *)
C8_ClosedFormMatchesSimulation ==
    (IsGrowthCall /\ RateIn0To20) =>
        WithinTolerance(frame.total,
                        BruteForceTotal(call.initial, call.monthly,
                                        call.returnRate, call.years))

(* C9: with an annual return of 0 the projected total is exactly initial +
   monthly * years * 12, the earnings and the earnings share are 0, and no
   division by zero happens (the division by the monthly rate is not
   taken). *)
C9_ZeroRate ==
    (IsGrowthCall /\ call.returnRate = FZero) =>
        \A i \in Amounts, c \in Contributions :
            (call.initial = FInt(i) /\ call.monthly = FInt(c)) =>
                /\ frame.branch = "simple"
                /\ frame.total = FInt(i + c * call.years * 12)
                /\ frame.earnings = FZero
                /\ frame.earningsPercent = FZero
                /\ ret.projected_total =
                      [neg |-> FALSE, units |-> BigOf((i + c * call.years * 12) * 100)]
                /\ ret.projected_earnings.units = <<>>
                /\ ret.power_of_compounding.units = <<>>

C9_Witness ==
    /\ IsGrowthCall /\ call.returnRate = FZero
    /\ call.initial = FInt(5000) /\ call.monthly = FInt(500) /\ call.years = 2
    /\ frame.total = FInt(17000)
    /\ ret.projected_total.units = BigOf(1700000)

(* C10: the simple sum monthly * n is taken only when |r| is below the
   epsilon; for every negative annual return the annuity is computed with
   the general formula monthly * (((1 + r)^n - 1) / r). *)
C10_NegativeRateGeneralFormula ==
    IsGrowthCall =>
        /\ frame.branch = "simple" =>
              /\ FLess(frame.monthlyRate, Epsilon)
              /\ FLess(FNeg(Epsilon), frame.monthlyRate)
        /\ FLess(call.returnRate, FZero) =>
              frame.fvAnnuity = GeneralAnnuity(call.monthly, frame.monthlyRate,
                                               call.years)

(* C11: for whole-dollar initial >= 0 and monthly >= 0 and years >= 0 the
   returned total_contributed is initial + monthly * 12 * years whatever the
   return rate is; for 5000, 500, 7% and 20 years it is 125000. *)
C11_TotalContributed ==
    IsGrowthCall =>
        \A i \in Amounts, c \in Contributions :
            (call.initial = FInt(i) /\ call.monthly = FInt(c)) =>
                /\ ret.total_contributed = FInt(i + c * 12 * call.years)
                /\ (i = 5000 /\ c = 500 /\ call.years = 20) =>
                      ret.total_contributed = FInt(125000)

C11_Witness ==
    /\ IsGrowthCall
    /\ call.initial = FInt(5000) /\ call.monthly = FInt(500)
    /\ call.returnRate = FInt(7) /\ call.years = 20
    /\ ret.total_contributed = FInt(125000)

\* the number a formatted text spells, in units of its last digit
Signed(p) == [neg |-> p.neg, m |-> p.units, e |-> 0]

\* the exact product of two floats
ExactProduct(a, b) == [neg |-> a.neg # b.neg, m |-> BigMul(a.m, b.m), e |-> a.e + b.e]

\* |d| * 10^k <= |y|
Close(d, y, k) ==
    Leq([neg |-> FALSE, m |-> BigMul(d.m, BigPow(10, k)), e |-> d.e],
        [neg |-> FALSE, m |-> y.m, e |-> y.e])

(* C12: for initial >= 0, monthly >= 0, years >= 0 the total is the total
   contributed plus the earnings (to 15 significant digits as float64, and
   to the cent as printed); the earnings share is earnings / total * 100
   when total > 0 and 0 when total <= 0; the share never exceeds 100. *)
C12_EarningsIdentity ==
    IsGrowthCall =>
        /\ Close(ExactSum(FAdd(frame.totalContributed, frame.earnings),
                          FNeg(frame.total)),
                 frame.total, 15)
        /\ ExactSum(Signed(ret.projected_total),
                    FNeg(ExactSum(Signed(Format(ret.total_contributed, 2)),
                                  Signed(ret.projected_earnings)))).m = <<>>
        /\ FLess(FZero, frame.total) =>
              Close(ExactSum(ExactProduct(frame.earningsPercent, frame.total),
                             FNeg(ExactProduct(frame.earnings, FInt(100)))),
                    ExactProduct(frame.earnings, FInt(100)), 15)
        /\ ~FLess(FZero, frame.total) =>
              frame.earningsPercent = FZero /\ ret.power_of_compounding.units = <<>>
        /\ Leq(frame.earningsPercent, FInt(100))
        /\ ret.power_of_compounding.neg
              \/ BigLeq(ret.power_of_compounding.units, BigOf(1000))

C12_Witness ==
    /\ IsGrowthCall
    /\ call.initial = FInt(5000) /\ call.monthly = FInt(500)
    /\ call.returnRate = FInt(7) /\ call.years = 20
    /\ ret.total_contributed = FInt(125000)
    /\ ret.projected_total = [neg |-> FALSE, units |-> BigOf(28065702)]
    /\ ret.projected_earnings = [neg |-> FALSE, units |-> BigOf(15565702)]
    /\ ret.power_of_compounding = [neg |-> FALSE, units |-> BigOf(555)]

C12_ZeroTotalWitness ==
    /\ IsGrowthCall
    /\ call.initial = FZero /\ call.monthly = FZero /\ call.years = 2
    /\ frame.total = FZero /\ frame.earningsPercent = FZero

\* the total calculateCompoundGrowth computes for other arguments
TotalOf(initial, monthly, returnRate, years) ==
    GrowthFrame(initial, monthly, returnRate, years).total

RateOf(lit) == FDec(lit.neg, lit.m, lit.d)

(* C13: for initial >= 0, monthly >= 0, an annual return >= 0 and
   years >= 0, raising any one of initial, monthly, the annual return or the
   years with the others held fixed never lowers the projected total. *)
C13_MonotoneTotal ==
    (IsGrowthCall /\ ~FLess(call.returnRate, FZero)) =>
        /\ \A i \in Amounts :
              Leq(call.initial, FInt(i)) =>
                  Leq(frame.total,
                      TotalOf(FInt(i), call.monthly, call.returnRate, call.years))
        /\ \A c \in Contributions :
              Leq(call.monthly, FInt(c)) =>
                  Leq(frame.total,
                      TotalOf(call.initial, FInt(c), call.returnRate, call.years))
        /\ \A lit \in RateLiterals :
              Leq(call.returnRate, RateOf(lit)) =>
                  Leq(frame.total,
                      TotalOf(call.initial, call.monthly, RateOf(lit), call.years))
        /\ \A y \in Years :
              call.years <= y =>
                  Leq(frame.total,
                      TotalOf(call.initial, call.monthly, call.returnRate, y))

IsDynamicCall == call.fn = "dynamic_risk_assessment" /\ call.decoded

IncomeValue(x) ==
    CASE x = "unstable" -> 15 [] x = "moderate" -> 28 [] x = "stable" -> 40
      [] OTHER -> 0

FrequencyValue(x) ==
    CASE x = "high" -> 5 [] x = "medium" -> 15 [] x = "low" -> 25
      [] OTHER -> 0

ConsistencyValue(x) ==
    CASE x = "inconsistent" -> 5 [] x = "moderate" -> 15 [] x = "excellent" -> 25
      [] OTHER -> 0

FundValue(months) ==
    CASE months >= 12 -> 20
      [] 6 <= months /\ months < 12 -> 15
      [] 3 <= months /\ months < 6 -> 10
      [] OTHER -> 5

(* C14: the dynamic risk score is the sum of four independent components:
   income stability (unstable 15, moderate 28, stable 40), transaction
   frequency (high 5, medium 15, low 25), savings consistency (inconsistent
   5, moderate 15, excellent 25), each 0 for any other string, and the
   emergency fund: 20 from 12 months, 15 from 6, 10 from 3, 5 otherwise. *)
C14_DynamicScoreIsSum ==
    IsDynamicCall =>
        /\ frame.riskScore = IncomeValue(call.income_stability)
                             + FrequencyValue(call.transaction_frequency)
                             + ConsistencyValue(call.savings_consistency)
                             + FundValue(frame.emergencyMonths)
        /\ ret.result.calculated_risk_score = frame.riskScore

C14_Witness ==
    /\ IsDynamicCall
    /\ call.income_stability = "moderate" /\ call.transaction_frequency = "daily"
    /\ call.savings_consistency = "excellent" /\ frame.emergencyMonths = 11
    /\ ret.result.calculated_risk_score = 68

Tier4(score) ==
    CASE score >= 70 -> "Aggressive"
      [] 50 <= score /\ score < 70 -> "Moderate-to-Aggressive"
      [] 35 <= score /\ score < 50 -> "Moderate"
      [] score < 35 -> "Conservative"

(* C15: getRiskLevelFromScore maps every integer score to one tier:
   Aggressive from 70, Moderate-to-Aggressive from 50 to 69, Moderate from
   35 to 49, Conservative below 35; the recommended_profile of
   dynamic_risk_assessment is that tier of the calculated score. *)
C15_TierOfScore ==
    /\ call.fn = "getRiskLevelFromScore" =>
          /\ ret = Tier4(call.score)
          /\ call.score = 70 => ret = "Aggressive"
          /\ call.score = 69 => ret = "Moderate-to-Aggressive"
          /\ call.score = 50 => ret = "Moderate-to-Aggressive"
          /\ call.score = 49 => ret = "Moderate"
          /\ call.score = 35 => ret = "Moderate"
          /\ call.score = 34 => ret = "Conservative"
    /\ IsDynamicCall =>
          ret.result.recommended_profile = Tier4(ret.result.calculated_risk_score)

C15_Witness ==
    /\ IsDynamicCall
    /\ ret.result.calculated_risk_score = 35
    /\ ret.result.recommended_profile = "Moderate"

(* C16: the score of dynamic_risk_assessment lies in 30..110 for every
   decoded call, whatever strings are passed as income_stability,
   transaction_frequency and savings_consistency (the last two may be absent
   or empty) and whatever the months of emergency fund. *)
C16_DynamicScoreRange ==
    IsDynamicCall => ret.result.calculated_risk_score \in 30 .. 110

ThreeTiers == {"Conservative", "Moderate", "Moderate-to-Aggressive"}

(* C17: assessRiskProfile returns one of Conservative, Moderate,
   Moderate-to-Aggressive for every input it returns for, and its tier
   selection does so for every score: never Aggressive; getRiskLevelFromScore
   returns Aggressive for a score the behavioral scorer reaches. *)
C17_AggressiveOnlyBehavioral ==
    /\ (call.fn = "assessRiskProfile" /\ ret # Panic) =>
          ret.recommended_risk_level \in ThreeTiers
    /\ call.fn = "RiskLevel" => ret \in ThreeTiers
    /\ \E income \in IncomeStabilityInputs, tx \in TxFrequencyInputs,
          savings \in SavingsConsistencyInputs, lit \in MonthLiterals :
           getRiskLevelFromScore(
               calculateDynamicRiskScore(income, tx, savings,
                                         IntOf(FDec(lit.neg, lit.m, lit.d))))
             = "Aggressive"

C17_Witness ==
    /\ IsDynamicCall
    /\ ret.result.calculated_risk_score = 110
    /\ ret.result.recommended_profile = "Aggressive"

C17_TopScoreWitness ==
    /\ IsRiskCall
    /\ ret.risk_score = 160
    /\ ret.recommended_risk_level = "Moderate-to-Aggressive"

IsRebalanceCall == call.fn = "rebalance_investment_portfolio" /\ call.decoded

(* C18: a lookup of a risk level without a row in the allocation table
   fails explicitly: for every target_risk_level, the documented
   'conservative', 'moderate', 'aggressive' and 'Aggressive' included,
   rebalance_investment_portfolio returns an error or a target_allocation
   that is not nil and not empty. *)
C18_MissingRowFailsExplicitly ==
    IsRebalanceCall =>
        \/ ret.err # Nil
        \/ /\ ret.result.target_allocation # Nil
           /\ DOMAIN ret.result.target_allocation = {"stocks", "bonds", "cash"}

C18_TableRowWitness ==
    /\ IsRebalanceCall
    /\ call.target_risk_level = "Moderate"
    /\ ret.err = Nil
    /\ ret.result.target_allocation = riskAllocationCache["Moderate"]

(* C19: no input makes a calculation crash: for every integer age, negative
   ages and ages from 120 included, assessRiskProfile returns a value or an
   explicit error and never panics. *)
C19_NoPanic ==
    call.fn = "assessRiskProfile" => ret # Panic

IsProjectionCall == call.fn = "calculate_investment_projection" /\ call.decoded

\* the texts of the input sets that spell no number
NotANumber == {"$5000", "", "abc", "1,000", "7%", "seven"}

\* the texts of the input sets that spell no base-10 integer
NotAnInteger == {"20+", "7.5", "", "two", " 2"}

ResultKeys ==
    {"initial_investment", "monthly_contribution", "total_contributed",
     "projected_earnings", "projected_total", "years", "annual_return_rate",
     "power_of_compounding"}

(* C20: a string that is no number yields 0 and no error: the amount and the
   rate of calculate_investment_projection are 0 for such a string, the
   years are 0 when the years string is no base-10 integer ("20+", "7.5"),
   and the handler returns a complete result with nil error; a string that
   is a number yields that number. *)
C20_UnparsableYieldsZero ==
    IsProjectionCall =>
        /\ call.initial_amount \in NotANumber => frame.initial = FZero
        /\ call.monthly_addition \in NotANumber => frame.monthly = FZero
        /\ call.expected_return \in NotANumber => frame.returnRate = FZero
        /\ call.years \in NotAnInteger => frame.years = 0
        /\ call.initial_amount = "5000" => frame.initial = FInt(5000)
        /\ call.initial_amount = "5e3" => frame.initial = FInt(5000)
        /\ call.initial_amount = "1000.50" => frame.initial = FDec(FALSE, 10005, 1)
        /\ call.monthly_addition = "500" => frame.monthly = FInt(500)
        /\ call.expected_return = "7" => frame.returnRate = FInt(7)
        /\ call.expected_return = "4.5" => frame.returnRate = FDec(FALSE, 45, 1)
        /\ call.years = "20" => frame.years = 20
        /\ call.years = "2" => frame.years = 2
        /\ call.years = "+1" => frame.years = 1
        /\ ret.err = Nil
        /\ DOMAIN ret.result = ResultKeys
        /\ ret.result.initial_investment = frame.initial
        /\ ret.result.monthly_contribution = frame.monthly
        /\ ret.result.years = frame.years

C20_Witness ==
    /\ IsProjectionCall
    /\ call.initial_amount = "$5000" /\ call.monthly_addition = "1,000"
    /\ call.expected_return = "7%" /\ call.years = "20+"
    /\ frame = [initial |-> FZero, monthly |-> FZero, returnRate |-> FZero,
                years |-> 0]
    /\ ret.err = Nil
    /\ ret.result.projected_total = [neg |-> FALSE, units |-> <<>>]

C20_YearsWitness ==
    /\ IsProjectionCall
    /\ call.initial_amount = "5000" /\ call.monthly_addition = "500"
    /\ call.expected_return = "7" /\ call.years = "7.5"
    /\ frame.years = 0
    /\ ret.result.projected_total = [neg |-> FALSE, units |-> BigOf(500000)]

----------------------------------------------------------------------------
(* Startup *)

\* the names of a sequence of tools
Names(tools) == {tools[i] : i \in 1 .. Len(tools)}

\* C28: with an empty ANTHROPIC_API_KEY main ends in the fatal error with no
\* server created and no tool registered; once srv.Run has been called the
\* registered tools are the Liminal tools followed by the 12 custom tools,
\* each custom tool once and under its own name; and no step registers a
\* tool after Run
C28_StartupOrdering ==
    /\ [](anthropicKey = "" =>
             /\ pc \in {"getenv", "fatal"}
             /\ srv = "none"
             /\ registered = <<>>)
    /\ [](srv = "running" =>
             /\ anthropicKey # ""
             /\ registered = LiminalTools \o CustomTools
             /\ Len(CustomTools) = 12
             /\ Cardinality(Names(CustomTools)) = 12)
    /\ [][(srv = "running") => (srv' = "running" /\ registered' = registered)]_vars

\* the server runs with all the tools registered
C28_Witness ==
    /\ pc = "serving"
    /\ srv = "running"
    /\ Len(registered) = Len(LiminalTools) + 12

\* the fatal end of a start without the key
C28_FatalWitness == pc = "fatal" /\ anthropicKey = "" /\ registered = <<>>

----------------------------------------------------------------------------
(* Ids *)

IsStartCall == call.fn = "start_automated_investing" /\ call.decoded

IsGoalCall == call.fn = "create_investment_goal_with_transfer" /\ call.decoded

\* the digits after the 5 characters of "plan_" or "goal_"
IdDigits(id) == SubSeq(id, 6, Len(id))

\* the decimal text of the process id modulo 100000
IsProcessId(id) ==
    /\ ParseInt(IdDigits(id)) = [v |-> pid % 100000, err |-> Nil]
    /\ Char(IdDigits(id), 1) \in DigitChars
    /\ Len(IdDigits(id)) = 1 \/ Char(IdDigits(id), 1) # "0"

\* C30: the process id never changes, and every plan_id is "plan_" and every
\* goal_id is "goal_" followed by the decimal text of the process id modulo
\* 100000, whatever the arguments of the call: all plan_id values of a
\* process are equal, and all its goal_id values are equal
C30_SameIdEveryCall ==
    /\ [](IsStartCall =>
             /\ SubSeq(ret.result.plan_id, 1, 5) = "plan_"
             /\ IsProcessId(ret.result.plan_id))
    /\ [](IsGoalCall =>
             /\ SubSeq(ret.result.goal_id, 1, 5) = "goal_"
             /\ IsProcessId(ret.result.goal_id))
    /\ [][pid' = pid]_vars

\* a process whose id has six digits returns its five low digits
C30_Witness ==
    /\ IsGoalCall
    /\ pid = 104242
    /\ ret.result.goal_id = "goal_4242"
    /\ call.target_date = "2046-11-01"

\* a plan of the same process
C30_PlanWitness == IsStartCall /\ pid = 104242 /\ ret.result.plan_id = "plan_4242"

----------------------------------------------------------------------------
(* Goals and rebalancing *)

\* C26: a portfolio whose stocks, bonds and cash shares are those of the
\* target needs no rebalancing: for 3000/1500/500, which is 60.0%, 30.0% and
\* 10.0%, against the Moderate target, rebalancing_needed is false
C26_BalancedNeedsNoRebalancing ==
    ( /\ IsRebalanceCall
      /\ call.current_stocks_value = "3000"
      /\ call.current_bonds_value = "1500"
      /\ call.current_cash_value = "500"
      /\ call.target_risk_level = "Moderate"
      /\ ret.result.current_allocation.stocks = [neg |-> FALSE, units |-> BigOf(600)] )
    => ~ret.result.rebalancing_needed

\* C27: the projected_total of a goal is the value at its target_date: for a
\* monthly contribution above zero, a goal that differs only in target_date
\* has another projection
C27_ProjectionFollowsTargetDate ==
    ( /\ IsGoalCall
      /\ ~Negative(frame.monthlyAmount)
      /\ frame.monthlyAmount # FZero )
    => \A date \in DateStrings \ {call.target_date} :
          GoalFrame(call.target_amount, date, call.monthly_contribution).projection
              # frame.projection

----------------------------------------------------------------------------
(* Concepts *)

IsExplainCall == call.fn = "explain_investment_concept" /\ call.decoded

\* the concept names that the description of the tool offers, line 357
OfferedConcepts ==
    {"ETF", "dividend", "diversification", "compound_interest", "dollar_cost_averaging"}

\* the record returned for a concept without an entry
IsFallback(r, concept) ==
    /\ DOMAIN r = {"concept", "explanation"}
    /\ r.concept = concept

\* C25: for each of the five concept names that the tool offers the result
\* is the stored explanation, with three key_points; for every other concept
\* it is the fallback, which echoes the concept and has no key_points
C25_OfferedConceptsExplained ==
    IsExplainCall =>
        IF call.concept \in OfferedConcepts
        THEN /\ DOMAIN ret.result = {"concept", "explanation", "key_points"}
             /\ Len(ret.result.key_points) = 3
        ELSE IsFallback(ret.result, call.concept)

\* the four offered names that are keys of the table are explained
C25_StoredWitness ==
    /\ IsExplainCall
    /\ call.concept = "dividend"
    /\ ret.result = conceptCache["dividend"]

----------------------------------------------------------------------------
(* The rows of the levels *)

\* C24: every level that the level selection yields has a row in
\* riskAllocationCache and in strategiesCache, and every result that
\* assessRiskProfile returns holds an allocation_suggestion with the keys
\* stocks, bonds and cash and three best_fit_strategies, neither of them nil
C24_ReturnedLevelHasRows ==
    /\ call.fn = "RiskLevel" =>
          ret \in DOMAIN riskAllocationCache \cap DOMAIN strategiesCache
    /\ (call.fn = "assessRiskProfile" /\ ret # Panic) =>
          /\ ret.allocation_suggestion # Nil
          /\ DOMAIN ret.allocation_suggestion = {"stocks", "bonds", "cash"}
          /\ ret.best_fit_strategies # Nil
          /\ Len(ret.best_fit_strategies) = 3

\* the highest level, with its rows
C24_Witness ==
    /\ IsRiskCall
    /\ ret.recommended_risk_level = "Moderate-to-Aggressive"
    /\ ret.allocation_suggestion = riskAllocationCache["Moderate-to-Aggressive"]
    /\ Len(ret.best_fit_strategies) = 3

----------------------------------------------------------------------------
(* Errors *)

\* a call of a tool handler
IsHandlerCall == "decoded" \in DOMAIN call

\* C29: a handler returns an error only when the JSON of its input does not
\* decode, and then it is the invalid input error with a nil result; for
\* every input that decodes the error is nil, whatever the decoded values
\* are: unparsable numbers, unknown enum strings, a portfolio total of zero,
\* an income of zero
C29_OnlyDecodeErrors ==
    IsHandlerCall =>
        IF call.decoded
        THEN ret.err = Nil /\ ret.result # Nil
        ELSE ret.err = InvalidInput /\ ret.result = Nil

\* an income of zero: the savings rate is NaN and the error is nil
C29_Witness ==
    /\ call.fn = "calculate_smart_savings_rate"
    /\ call.decoded
    /\ call.monthly_income = "0"
    /\ ret.result.savings_rate = [special |-> "NaN"]
    /\ ret.err = Nil

\* a portfolio total of zero
C29_ZeroTotalWitness ==
    /\ IsRebalanceCall
    /\ frame.total = FZero
    /\ ret.err = Nil

\* an input that does not decode
C29_UndecodedWitness ==
    /\ call.fn = "analyze_investment_recommendations"
    /\ ~call.decoded
    /\ ret.err = InvalidInput

----------------------------------------------------------------------------
(* Shared state *)

\* caller c holds the result of a call of fn
Holds(c, fn) == caller[c].pc = "done" /\ caller[c].fn = fn

\* C21: for every interleaving of the Load and Store steps of concurrent
\* parseCachedFloat calls, every call on a string returns the value of the
\* uncached parse of the string, every entry of the cache maps its string
\* to that value, and an entry once stored never changes
C21_CacheTransparent ==
    /\ [](\A c \in 1 .. MaxCallers :
             Holds(c, "parseCachedFloat") =>
                 caller[c].seen = ParseFloat(caller[c].arg).v)
    /\ [](\A s \in CacheStrings :
             parseCache[s] # Nil => parseCache[s] = ParseFloat(s).v)
    /\ [][\A s \in CacheStrings :
             parseCache[s] # Nil => parseCache'[s] = parseCache[s]]_vars

\* two simultaneous misses on the same string: one caller has stored the
\* entry while the other is still between its Load and its Store
C21_Witness ==
    /\ Holds(1, "parseCachedFloat")
    /\ caller[1].arg = "500"
    /\ caller[2].pc = "store"
    /\ caller[2].arg = "500"
    /\ parseCache["500"] = ParseFloat("500").v

\* a hit: the entry is returned while nobody is storing
C21_HitWitness ==
    /\ Holds(1, "parseCachedFloat")
    /\ caller[1].arg = "abc"
    /\ caller[2].pc = "idle"
    /\ parseCache["abc"] = FZero
    /\ parseCache["500"] # Nil

\* C22: the package-level tables are never written by the calls: every step
\* of a call, of any caller and in any interleaving, leaves every table as
\* it was initialized; only a caller's own write to a map it was handed
\* changes one
C22_TablesNeverWritten ==
    [][(\A c \in 1 .. MaxCallers : ~CallerWrites(c)) => tables' = tables]_vars

\* calls of every kind have returned and the tables are as initialized
C22_Witness ==
    /\ Holds(1, "explainConcept")
    /\ caller[1].arg = "ETF"
    /\ Holds(2, "assessRiskProfile")
    /\ parseCache["500"] # Nil
    /\ tables = InitialTables

\* C23: a result shares no structure with a table or with another result:
\* whatever the callers did with the results they hold, a call of
\* explainConcept, getRiskAllocation or assessRiskProfile returns what the
\* function yields on the tables as initialized
C23_ResultsUnshared ==
    \A c \in 1 .. MaxCallers :
        /\ Holds(c, "explainConcept") => caller[c].seen = explainConcept(caller[c].arg)
        /\ Holds(c, "getRiskAllocation") => caller[c].seen = getRiskAllocation(caller[c].arg)
        /\ Holds(c, "assessRiskProfile") =>
              caller[c].seen = assessRiskProfile(caller[c].arg.age,
                                                 caller[c].arg.yearsToRetirement,
                                                 caller[c].arg.downturnComfort,
                                                 caller[c].arg.experience)

====
